---- MODULE Spec2Model ----
(***************************************************************************)
(* Action scheduling and control dispatch of Companion:                    *)
(*   lib/Controls/ActionRunner.ts   (delayed action timers, aborts)        *)
(*   lib/Internal/Controls.ts       (internal actions re-entering it)      *)
(*   lib/Controls/Controller.ts     (control registry, press dispatch)     *)
(***************************************************************************)
EXTENDS Integers, Sequences, FiniteSets, TLC

\* ------------------------------------------------------------------ bounds
\* longest action list handed to runMultipleActions
MaxLen == 2
\* longest batch handed to updateFeedbackValues
MaxBatch == 3
\* timers pending at once when a run is started
MaxTimers == 2
\* longest action list of a single run looked at on its own
MaxRunLen == 3
\* pages of the grid
MaxPage == 2
\* buttons per page (Resources/Constants.js, scaled down)
MAX_BUTTONS == 2
\* the steps of a button
StepCount == 2

\* ------------------------------------------------------------- control ids
\* `bank:${page}-${bank}`
CreateBankControlId(page, bank) == [type |-> "bank", page |-> page, bank |-> bank]

\* `trigger:${id}`
CreateTriggerControlId(id) == [type |-> "trigger", page |-> 0, bank |-> id]

\* the parsed id; page and bank are set for a bank id only
ParseControlId(controlId) == controlId

BankControlIds == {CreateBankControlId(p, b) : p \in 1..MaxPage, b \in 1..MAX_BUTTONS}

ControlIds == BankControlIds \cup {CreateTriggerControlId(1)}

\* ---------------------------------------------------------------- registry
\* an id #controls has no entry for
UnknownControlId == CreateTriggerControlId(2)

\* the ids pressControl, rotateControl and updateFeedbackValues are called with
DispatchIds == ControlIds \cup {UnknownControlId}

\* #controls as loaded from the database: two buttons on page 1, a button
\* and a page-navigation button on page 2, one trigger
ControlType(controlId) ==
    IF controlId \in {CreateBankControlId(1, 1), CreateBankControlId(1, 2),
                      CreateBankControlId(2, 1)} THEN "button"
    ELSE IF controlId = CreateBankControlId(2, 2) THEN "pageup"
    ELSE IF controlId = CreateTriggerControlId(1) THEN "trigger"
    ELSE "none"

\* getControl(controlId) returns a control
getControl(controlId) == ControlType(controlId) # "none"

\* typeof control.setActionsRunning === 'function'
HasSetActionsRunning(controlId) == ControlType(controlId) \in {"button", "trigger"}

\* typeof control.pressControl === 'function'
HasPressControl(controlId) == ControlType(controlId) \in {"button", "pageup"}

\* typeof control.rotateControl === 'function'
HasRotateControl(controlId) == ControlType(controlId) = "button"

\* control.feedbacks && typeof control.feedbacks.updateFeedbackValues === 'function'
\* typeof control.stepMakeCurrent === 'function', typeof control.stepAdvanceDelta === 'function'
HasSteps(controlId) == ControlType(controlId) = "button"

HasFeedbacks(controlId) == ControlType(controlId) \in {"button", "trigger"}

RunningControls == {c \in ControlIds : HasSetActionsRunning(c)}

\* connectors that moduleHost.getChild resolves; every other connector id
\* is one of a connector that is gone
Connectors == {"conn1", "conn2", "conn4"}

\* connectors whose actionRun promise rejects
Rejecting == {"conn2"}

\* connectors whose actionRun promise never settles
Hanging == {"conn4"}

\* ------------------------------------------------------------------ delays
\* an action's .delay as stored: a number, a numeric string, a non-numeric
\* string, or missing
NumDelay(v) == [t |-> "num", v |-> v]
StrDelay(v) == [t |-> "str", v |-> v]
NanDelay == [t |-> "nan", v |-> 0]
NoDelay == [t |-> "missing", v |-> 0]

\* Number(x): NaN is modelled by the tag "nan"
ToNumber(d) == IF d.t = "nan" THEN [nan |-> TRUE, v |-> 0] ELSE [nan |-> FALSE, v |-> d.v]

\* !action.delay: undefined and the number 0 are falsy, every non-empty string is truthy
Falsy(d) == d.t = "missing" \/ (d.t = "num" /\ d.v = 0)

\* let this_delay = !action.delay ? 0 : Number(action.delay); if (isNaN(this_delay)) this_delay = 0
ThisDelay(action) ==
    IF Falsy(action.delay) THEN 0
    ELSE IF ToNumber(action.delay).nan THEN 0
    ELSE ToNumber(action.delay).v

\* const effective_delays = {}; for (const action of actions) { ... effective_delays[action.id] = tmp_delay }
RECURSIVE EffectiveDelaysLoop(_, _, _, _, _)
EffectiveDelaysLoop(actions, relative_delay, i, tmp_delay, effective_delays) ==
    IF i > Len(actions) THEN effective_delays
    ELSE LET this_delay == ThisDelay(actions[i])
             tmp == IF relative_delay THEN tmp_delay + this_delay ELSE this_delay
         IN  EffectiveDelaysLoop(actions, relative_delay, i + 1, tmp,
                                 (actions[i].id :> tmp) @@ effective_delays)

EffectiveDelaysNeverAdds(actions, relative_delay) ==
    EffectiveDelaysLoop(actions, FALSE, 1, 0, <<>>)

EffectiveDelays(actions, relative_delay) ==
    EffectiveDelaysLoop(actions, relative_delay, 1, 0, <<>>)

\* effective_delays[action.id] === undefined ? 0 : effective_delays[action.id]
DelayTime(effective_delays, action) ==
    IF action.id \in DOMAIN effective_delays THEN effective_delays[action.id] ELSE 0

EnabledActionsUnfiltered(actions0) == actions0

\* actions0.filter((act) => !act.disabled)
EnabledActions(actions0) == SelectSeq(actions0, LAMBDA act : ~act.disabled)

\* --------------------------------------------------------- scheduler state
\* The operations below transform a record of the scheduler's, the timer
\* queue's and the controls' state:
\*   timers     #timers_running: handle -> controlId, in insertion order
\*   scheduled  the timeouts setTimeout has armed and that have neither fired
\*              nor been cleared, in the order they were armed; each with the
\*              closure of its callback (action, controlId, extras), its delay
\*              and the time left until it is due
\*   running    has_actions_running of each control with setActionsRunning
\*   pushed     the pushed flag of each button
\*   firing     the handle whose callback is on the stack (0: none)
\*   signals    the #setControlIsRunning calls of the operation in progress
\*   dispatched the #runAction calls of the operation in progress
\*   armed      the setTimeout calls of the operation in progress
\*   cleared    the handles the aborts of the operation in progress removed
\*   runs       the runMultipleActions calls of the operation in progress
\*   events     the trigger-system events emitted and the press and rotate
\*              handlers of controls invoked by the operation in progress
\*   ret        what the last pressControl or rotateControl call returned
\*   forwards   the control.feedbacks.updateFeedbackValues calls of the
\*              operation in progress
\*   unsettled  the actionRun calls whose promise has not settled
\*   step       the active step index of each button
\*   thrown     an exception is unwinding the stack of the operation in progress
\*   overflow   the operation needs more than MaxHandles handles

\* entries of #timers_running owned by controlId
TimersOf(timers, controlId) == SelectSeq(timers, LAMBDA t : t.controlId = controlId)

TimerIds(timers) == {timers[i].id : i \in 1..Len(timers)}

clearTimeoutNot(s, timer) == s

\* clearTimeout(timer)
clearTimeout(s, timer) ==
    [s EXCEPT !.scheduled = SelectSeq(@, LAMBDA t : t.id # timer)]

\* handles of timers: more than one operation can have live
MaxHandles == MaxRunLen + MaxTimers

\* setTimeout(callback, delay_time) returns a handle that names no other
\* live timer
FreeHandles(s) ==
    (1..(MaxHandles + 1)) \ (TimerIds(s.timers) \cup TimerIds(s.scheduled)
                              \cup s.cleared \cup {s.firing})

NewHandle(s) ==
    IF FreeHandles(s) \ {MaxHandles + 1} = {} THEN MaxHandles + 1
    ELSE CHOOSE h \in FreeHandles(s) : \A g \in FreeHandles(s) : h <= g

setTimeout(s, action, controlId, extras, delay_time, run) ==
    LET timer == NewHandle(s)
        t == [id |-> timer, controlId |-> controlId, action |-> action,
              extras |-> extras, delay |-> delay_time, remaining |-> delay_time]
    IN  [s EXCEPT !.scheduled = Append(@, t),
                  !.armed = Append(@, [timer |-> timer, run |-> run, id |-> action.id]),
                  !.overflow = @ \/ timer > MaxHandles]

\* control.setActionsRunning(running, skipUp) of a button or trigger
setActionsRunning(s, controlId, running, skipUp) ==
    [s EXCEPT !.running[controlId] = running,
              !.pushed = IF ~running /\ ~skipUp /\ controlId \in DOMAIN s.pushed
                         THEN [@ EXCEPT ![controlId] = FALSE] ELSE @]

\* #setControlIsRunning(controlId, running, skipUp)
SetControlIsRunning(s, controlId, running, skipUp) ==
    LET delivered == getControl(controlId) /\ HasSetActionsRunning(controlId)
        call == [controlId |-> controlId, running |-> running, skipUp |-> skipUp,
                 delivered |-> delivered,
                 pending |-> Len(TimersOf(s.timers, controlId))]
        s1 == [s EXCEPT !.signals = Append(@, call)]
    IN  IF delivered THEN setActionsRunning(s1, controlId, running, skipUp) ELSE s1

AffectedControlIdsRepeated(timers, seen) ==
    [i \in 1..Len(timers) |-> timers[i].controlId]

\* the distinct owners of the timers, in order of first insertion (a Set)
RECURSIVE AffectedControlIds(_, _)
AffectedControlIds(timers, seen) ==
    IF timers = <<>> THEN <<>>
    ELSE IF Head(timers).controlId \in seen THEN AffectedControlIds(Tail(timers), seen)
    ELSE <<Head(timers).controlId>>
             \o AffectedControlIds(Tail(timers), seen \cup {Head(timers).controlId})

\* for (const controlId of affectedControlIds.values()) this.#setControlIsRunning(controlId, false)
RECURSIVE SetAllNotRunning(_, _)
SetAllNotRunning(s, controlIds) ==
    IF controlIds = <<>> THEN s
    ELSE SetAllNotRunning(SetControlIsRunning(s, Head(controlIds), FALSE, FALSE),
                          Tail(controlIds))

\* for (const [timer, controlId] of entries) clearTimeout(timer)
RECURSIVE ClearAll(_, _)
ClearAll(s, entries) ==
    IF entries = <<>> THEN s
    ELSE ClearAll(clearTimeout(s, Head(entries).id), Tail(entries))

\* abortAllDelayed()
AbortAllDelayed(s) ==
    LET affectedControlIds == AffectedControlIds(s.timers, {})
        s1 == ClearAll(s, s.timers)
        s2 == [s1 EXCEPT !.timers = <<>>,
                         !.cleared = @ \cup TimerIds(s.timers)]
    IN  SetAllNotRunning(s2, affectedControlIds)

RECURSIVE AbortControlLoopEvery(_, _, _)
AbortControlLoopEvery(s, entries, controlId) ==
    IF entries = <<>> THEN s
    ELSE LET timer == Head(entries).id
         IN  AbortControlLoopEvery(
                 clearTimeout([s EXCEPT !.timers = SelectSeq(@, LAMBDA t : t.id # timer),
                                        !.cleared = @ \cup {timer}],
                              timer),
                 Tail(entries), controlId)

\* the loop of abortControlDelayed over the entries of #timers_running
RECURSIVE AbortControlLoop(_, _, _)
AbortControlLoop(s, entries, controlId) ==
    IF entries = <<>> THEN s
    ELSE LET timer == Head(entries).id
             s1 == IF Head(entries).controlId = controlId
                   THEN clearTimeout([s EXCEPT !.timers = SelectSeq(@, LAMBDA t : t.id # timer),
                                               !.cleared = @ \cup {timer}],
                                     timer)
                   ELSE s
         IN  AbortControlLoop(s1, Tail(entries), controlId)

AbortControlDelayedKeepTimeouts(s, controlId, skipUp) ==
    SetControlIsRunning(
        [s EXCEPT !.timers = SelectSeq(@, LAMBDA t : t.controlId # controlId),
                  !.cleared = @ \cup TimerIds(TimersOf(s.timers, controlId))],
        controlId, FALSE, skipUp)

AbortControlDelayedSignalFirst(s, controlId, skipUp) ==
    LET s1 == SetControlIsRunning(s, controlId, FALSE, skipUp)
    IN  AbortControlLoop(s1, s1.timers, controlId)

AbortControlDelayedNeverSkips(s, controlId, skipUp) ==
    SetControlIsRunning(AbortControlLoop(s, s.timers, controlId), controlId, FALSE, FALSE)

\* abortControlDelayed(controlId, skipUp)
AbortControlDelayed(s, controlId, skipUp) ==
    SetControlIsRunning(AbortControlLoop(s, s.timers, controlId), controlId, FALSE, skipUp)

RECURSIVE AbortPageLoopIgnoresSkip(_, _, _, _)
AbortPageLoopIgnoresSkip(s, page, skipControlIds, bank) ==
    IF bank > MAX_BUTTONS THEN s
    ELSE AbortPageLoopIgnoresSkip(AbortControlDelayed(s, CreateBankControlId(page, bank), FALSE),
                                  page, skipControlIds, bank + 1)

\* abortPageDelayed(page, skipControlIds): the loop from bank on
RECURSIVE AbortPageLoop(_, _, _, _)
AbortPageLoop(s, page, skipControlIds, bank) ==
    IF bank > MAX_BUTTONS THEN s
    ELSE LET controlId == CreateBankControlId(page, bank)
         IN  IF controlId \in skipControlIds
             THEN AbortPageLoop(s, page, skipControlIds, bank + 1)
             ELSE AbortPageLoop(AbortControlDelayed(s, controlId, FALSE),
                                page, skipControlIds, bank + 1)

\* abortPageDelayed(page, skipControlIds); undefined is the empty set
AbortPageDelayed(s, page, skipControlIds) == AbortPageLoop(s, page, skipControlIds, 1)

\* ----------------------------------------------------------------- actions
\* an ActionInstance: id, instance (connector id or 'internal'), action,
\* delay, disabled, and the options the internal actions read; options tells
\* whether action.options is an object (or undefined)
Action(id, instance, action, delay, disabled, page, bank, unlatch, ignoreSelf) ==
    [id |-> id, instance |-> instance, action |-> action, delay |-> delay,
     disabled |-> disabled, page |-> page, bank |-> bank,
     unlatch |-> unlatch, ignoreSelf |-> ignoreSelf, step |-> 0, amount |-> 0,
     options |-> TRUE]

\* options.bank of an action whose definition has no 'bank' option
\* ('panic_page'): undefined
NoBank == 0 - 1

ConnectorAction(delay) == Action(0, "conn1", "run", delay, FALSE, 0, 0, FALSE, FALSE)

\* the ids are unique within a list
WithIds(list) == [i \in 1..Len(list) |-> [list[i] EXCEPT !.id = i]]

\* the action sets of the buttons: on press one connector action after a
\* delay, on a rotation to the right one at once, to the left one after a delay
ButtonConfig(controlId) ==
    [down |-> WithIds(<<ConnectorAction(NumDelay(1))>>), up |-> <<>>,
     rotate_left |-> WithIds(<<ConnectorAction(NumDelay(1))>>),
     rotate_right |-> WithIds(<<ConnectorAction(NoDelay)>>),
     relative_delay |-> FALSE]

\* extra2 of runMultipleActions: page and bank are undefined (0) unless the
\* id parses as a bank id
Extras(controlId) ==
    LET parsed == ParseControlId(controlId)
    IN  [controlId |-> controlId,
         page |-> IF parsed.type = "bank" THEN parsed.page ELSE 0,
         bank |-> IF parsed.type = "bank" THEN parsed.bank ELSE 0]

\* #fetchPageAndButton(options, info, true), without variable fields
FetchPageAndButton(options, info) ==
    LET thePage == IF options.page = 0 THEN info.page ELSE options.page
        theButton == IF options.bank = 0 THEN info.bank ELSE options.bank
    IN  [thePage |-> thePage, theButton |-> theButton,
         theControlId |-> CreateBankControlId(thePage, theButton)]

\* control.stepMakeCurrent(n): the step with number n, counted from 1 as the
\* 'bank_current_step' feedback counts it, is made current; the index is
\* set directly
stepMakeCurrent(s, controlId, n) == [s EXCEPT !.step[controlId] = n - 1]

\* control.stepAdvanceDelta(d): the index moves by d modulo the step count
stepAdvanceDelta(s, controlId, d) ==
    [s EXCEPT !.step[controlId] = (@ + d) % StepCount]

\* An exception unwinds the stack: where a call returns the state x, the
\* rest of the caller runs only if x.thrown is not set.

RECURSIVE RunMultipleActions(_, _, _, _)
RECURSIVE RunLoop(_, _, _, _, _, _, _)
RECURSIVE RunAction(_, _, _, _, _, _)
RECURSIVE ExecuteAction(_, _, _)
RECURSIVE PressControl(_, _, _)
RECURSIVE ControlPressControl(_, _, _)
RECURSIVE RotateControl(_, _, _)
RECURSIVE ControlRotateControl(_, _, _)

\* this.triggers.emit(name, controlId, arg, deviceId)
Emit(s, name, controlId, arg) ==
    [s EXCEPT !.events = Append(@, [kind |-> "emit", name |-> name,
                                    controlId |-> controlId, arg |-> arg])]

\* a control's handler is entered
Handler(s, name, controlId, arg) ==
    [s EXCEPT !.events = Append(@, [kind |-> "handler", name |-> name,
                                    controlId |-> controlId, arg |-> arg])]

\* control.pressControl(pressed, deviceId): of a button, the pushed flag
\* follows the edge and the action set of the edge is run; a
\* page-navigation button runs no actions
ControlPressControl(s, controlId, pressed) ==
    LET config == ButtonConfig(controlId)
        s0 == Handler(s, "pressControl", controlId, pressed)
        s1 == [s0 EXCEPT !.pushed[controlId] = pressed]
    IN  IF ControlType(controlId) = "button"
        THEN RunMultipleActions(s1, IF pressed THEN config.down ELSE config.up,
                                controlId, config.relative_delay)
        ELSE s0

\* control.rotateControl(direction, deviceId) of a button: the action set of
\* the direction is run
ControlRotateControl(s, controlId, direction) ==
    LET config == ButtonConfig(controlId)
        s0 == Handler(s, "rotateControl", controlId, direction)
    IN  IF ControlType(controlId) = "button"
        THEN RunMultipleActions(s0, IF direction THEN config.rotate_right
                                                 ELSE config.rotate_left,
                                controlId, config.relative_delay)
        ELSE s0

PressControlAnyControl(s, controlId, pressed) ==
    IF getControl(controlId)
    THEN [ControlPressControl(Emit(s, "control_press", controlId, pressed),
                              controlId, pressed) EXCEPT !.ret = TRUE]
    ELSE [s EXCEPT !.ret = FALSE]

\* ControlsController.pressControl(controlId, pressed, deviceId)
PressControl(s, controlId, pressed) ==
    IF getControl(controlId) /\ HasPressControl(controlId)
    THEN CHOOSE r \in {IF x.thrown THEN x ELSE [x EXCEPT !.ret = TRUE] :
                           x \in {ControlPressControl(
                                      Emit(s, "control_press", controlId, pressed),
                                      controlId, pressed)}} : TRUE
    ELSE [s EXCEPT !.ret = FALSE]

\* ControlsController.rotateControl(controlId, direction, deviceId)
RotateControl(s, controlId, direction) ==
    IF getControl(controlId) /\ HasRotateControl(controlId)
    THEN CHOOSE r \in {IF x.thrown THEN x ELSE [x EXCEPT !.ret = TRUE] :
                           x \in {ControlRotateControl(s, controlId, direction)}} : TRUE
    ELSE [s EXCEPT !.ret = FALSE]

\* the actions whose branch of executeAction calls
\* #fetchPageAndButton(action.options, extras, true)
ReadsOptions(action) ==
    action.action \in {"button_press", "button_release", "button_rotate_left",
                       "button_rotate_right", "panic_bank", "panic_page",
                       "bank_current_step", "bank_current_step_delta"}

\* let thePage = options.page, with options undefined: a TypeError is thrown
Throw(s) == [s EXCEPT !.thrown = TRUE]

ExecuteActionStepAborts(s, action, extras) ==
    LET target == FetchPageAndButton(action, extras)
    IN  CASE action.action = "button_press" -> PressControl(s, target.theControlId, TRUE)
          [] action.action = "button_release" -> PressControl(s, target.theControlId, FALSE)
          [] action.action = "button_rotate_left" ->
                 RotateControl(s, target.theControlId, FALSE)
          [] action.action = "button_rotate_right" ->
                 RotateControl(s, target.theControlId, TRUE)
          [] action.action = "panic_bank" ->
                 AbortControlDelayed(s, target.theControlId, action.unlatch)
          [] action.action = "panic_page" ->
                 AbortPageDelayed(s, target.thePage,
                                  IF action.ignoreSelf THEN {target.theControlId} ELSE {})
          [] action.action = "panic" -> AbortAllDelayed(s)
          [] action.action = "bank_current_step" ->
                 IF getControl(target.theControlId) /\ HasSteps(target.theControlId)
                 THEN stepMakeCurrent(AbortControlDelayed(s, target.theControlId, FALSE),
                                      target.theControlId, action.step)
                 ELSE s
          [] action.action = "bank_current_step_delta" ->
                 IF getControl(target.theControlId) /\ HasSteps(target.theControlId)
                 THEN stepAdvanceDelta(AbortControlDelayed(s, target.theControlId, FALSE),
                                       target.theControlId, action.amount)
                 ELSE s
          [] OTHER -> s

\* Internal/Controls executeAction(action, extras): the actions that reach
\* the scheduler and the controls' steps
ExecuteAction(s, action, extras) ==
    LET target == FetchPageAndButton(action, extras)
    IN  IF ReadsOptions(action) /\ ~action.options THEN Throw(s)
        ELSE
        CASE action.action = "button_press" -> PressControl(s, target.theControlId, TRUE)
          [] action.action = "button_release" -> PressControl(s, target.theControlId, FALSE)
          [] action.action = "button_rotate_left" ->
                 RotateControl(s, target.theControlId, FALSE)
          [] action.action = "button_rotate_right" ->
                 RotateControl(s, target.theControlId, TRUE)
          [] action.action = "panic_bank" ->
                 AbortControlDelayed(s, target.theControlId, action.unlatch)
          [] action.action = "panic_page" ->
                 AbortPageDelayed(s, target.thePage,
                                  IF action.ignoreSelf THEN {target.theControlId} ELSE {})
          [] action.action = "panic" -> AbortAllDelayed(s)
          [] action.action = "bank_current_step" ->
                 IF getControl(target.theControlId) /\ HasSteps(target.theControlId)
                 THEN stepMakeCurrent(s, target.theControlId, action.step)
                 ELSE s
          [] action.action = "bank_current_step_delta" ->
                 IF getControl(target.theControlId) /\ HasSteps(target.theControlId)
                 THEN stepAdvanceDelta(s, target.theControlId, action.amount)
                 ELSE s
          [] OTHER -> s

\* #runAction(action, controlId, extras); timer is the handle of the timer
\* whose callback makes the call (0: none), run the runMultipleActions call
\* that makes it inline (0: none)
\* The call is logged with its outcome: "internal", "actionRun" (the
\* connector's actionRun was called) or "missing" (no connector, only a log
\* line), and with what becomes of a rejection of the actionRun promise:
\* "caught" by the .catch handler, which logs it, or "unhandled"; "pending"
\* is a promise that never settles.
RunActionCall(action, controlId, timer, run, outcome, failure) ==
    [id |-> action.id, controlId |-> controlId, timer |-> timer, run |-> run,
     instance |-> action.instance, action |-> action.action,
     outcome |-> outcome, failure |-> failure]

\* instance.actionRun(action, extras): the call returns its promise at once;
\* a promise that never settles stays with the connector
ActionRun(s, action, controlId, timer, run) ==
    IF action.instance \in Hanging
    THEN [s EXCEPT !.unsettled = Append(@, [id |-> action.id, controlId |-> controlId,
                                            timer |-> timer, run |-> run])]
    ELSE s

\* what becomes of the promise of a connector's actionRun under
\* .catch((e) => this.#logger.silly(...))
Settles(instance) ==
    IF instance \in Rejecting THEN "caught"
    ELSE IF instance \in Hanging THEN "pending"
    ELSE "none"

RunActionCallsMissing(s, action, controlId, extras, timer, run) ==
    LET log(outcome, failure) ==
            [s EXCEPT !.dispatched = Append(@,
                RunActionCall(action, controlId, timer, run, outcome, failure))]
    IN  IF action.instance = "internal"
        THEN ExecuteAction(log("internal", "none"), action, extras)
        ELSE ActionRun(log("actionRun", Settles(action.instance)),
                       action, controlId, timer, run)

RunActionNoCatch(s, action, controlId, extras, timer, run) ==
    LET log(outcome, failure) ==
            [s EXCEPT !.dispatched = Append(@,
                RunActionCall(action, controlId, timer, run, outcome, failure))]
    IN  IF action.instance = "internal"
        THEN ExecuteAction(log("internal", "none"), action, extras)
        ELSE IF action.instance \in Connectors
        THEN ActionRun(log("actionRun", IF action.instance \in Rejecting THEN "unhandled"
                                        ELSE Settles(action.instance)),
                       action, controlId, timer, run)
        ELSE log("missing", "none")

RunAction(s, action, controlId, extras, timer, run) ==
    LET log(outcome, failure) ==
            [s EXCEPT !.dispatched = Append(@,
                RunActionCall(action, controlId, timer, run, outcome, failure))]
    IN  IF action.instance = "internal"
        THEN ExecuteAction(log("internal", "none"), action, extras)
        ELSE IF action.instance \in Connectors
        THEN ActionRun(log("actionRun", Settles(action.instance)),
                       action, controlId, timer, run)
        ELSE log("missing", "none")

IsDelayedFromZero(delay_time) == delay_time >= 0

IsDelayedNonZero(delay_time) == delay_time # 0

\* if (delay_time > 0): is this a timedelayed action?
IsDelayed(delay_time) == delay_time > 0

\* const timer = setTimeout(...); this.#timers_running.set(timer, controlId)
ScheduleAction(s, action, controlId, extras, delay_time, run) ==
    LET s1 == setTimeout(s, action, controlId, extras, delay_time, run)
        timer == s1.scheduled[Len(s1.scheduled)].id
    IN  [s1 EXCEPT !.timers = Append(@, [id |-> timer, controlId |-> controlId])]

RECURSIVE RunLoopAwaits(_, _, _, _, _, _, _)
RunLoopAwaits(s, actions, i, effective_delays, controlId, extra2, run) ==
    IF i > Len(actions) THEN s
    ELSE LET action == actions[i]
             delay_time == DelayTime(effective_delays, action)
             s1 == IF IsDelayed(delay_time)
                   THEN ScheduleAction(s, action, controlId, extra2, delay_time, run)
                   ELSE RunAction(s, action, controlId, extra2, 0, run)
         IN  IF ~IsDelayed(delay_time) /\ action.instance \in Hanging THEN s1
             ELSE RunLoopAwaits(s1, actions, i + 1, effective_delays, controlId, extra2, run)

\* the second loop of runMultipleActions from action i on
RunLoop(s, actions, i, effective_delays, controlId, extra2, run) ==
    IF i > Len(actions) THEN s
    ELSE LET action == actions[i]
             delay_time == DelayTime(effective_delays, action)
             s1 == IF IsDelayed(delay_time)
                   THEN ScheduleAction(s, action, controlId, extra2, delay_time, run)
                   ELSE RunAction(s, action, controlId, extra2, 0, run)
         IN  CHOOSE r \in {IF x.thrown THEN x
                            ELSE RunLoop(x, actions, i + 1, effective_delays,
                                         controlId, extra2, run) : x \in {s1}} : TRUE

HasDelayedNever(actions, effective_delays) == FALSE

\* has_delayed after the loop: some action was handed to setTimeout
HasDelayed(actions, effective_delays) ==
    \E i \in 1..Len(actions) : IsDelayed(DelayTime(effective_delays, actions[i]))

RunMultipleActionsDelaysOfAll(s, actions0, controlId, relative_delay) ==
    LET actions == EnabledActions(actions0)
        effective_delays == EffectiveDelays(actions0, relative_delay)
        run == s.runs + 1
        s1 == RunLoop([s EXCEPT !.runs = run], actions, 1, effective_delays,
                      controlId, Extras(controlId), run)
    IN  IF Len(actions) = 0 THEN [s EXCEPT !.runs = run]
        ELSE IF HasDelayed(actions, effective_delays)
        THEN SetControlIsRunning(s1, controlId, TRUE, FALSE)
        ELSE s1

RunMultipleActionsRestarts(s, actions0, controlId, relative_delay) ==
    LET actions == EnabledActions(actions0)
        effective_delays == EffectiveDelays(actions, relative_delay)
        run == s.runs + 1
        s0 == AbortControlLoop(s, s.timers, controlId)
        s1 == RunLoop([s0 EXCEPT !.runs = run], actions, 1, effective_delays,
                      controlId, Extras(controlId), run)
    IN  IF Len(actions) = 0 THEN [s EXCEPT !.runs = run]
        ELSE IF HasDelayed(actions, effective_delays)
        THEN SetControlIsRunning(s1, controlId, TRUE, FALSE)
        ELSE s1

\* runMultipleActions(actions0, controlId, relative_delay, extra)
RunMultipleActions(s, actions0, controlId, relative_delay) ==
    LET actions == EnabledActions(actions0)
        effective_delays == EffectiveDelays(actions, relative_delay)
        run == s.runs + 1
        s1 == RunLoop([s EXCEPT !.runs = run], actions, 1, effective_delays,
                      controlId, Extras(controlId), run)
    IN  IF Len(actions) = 0 THEN [s EXCEPT !.runs = run]
        ELSE CHOOSE r \in {IF x.thrown THEN x
                            ELSE IF HasDelayed(actions, effective_delays)
                            THEN SetControlIsRunning(x, controlId, TRUE, FALSE)
                            ELSE x : x \in {s1}} : TRUE

TimerCallbackAlwaysSignals(s, t) ==
    LET s0 == [s EXCEPT !.scheduled = SelectSeq(@, LAMBDA u : u.id # t.id),
                        !.firing = t.id]
        s1 == RunAction(s0, t.action, t.controlId, t.extras, t.id, 0)
        s2 == [s1 EXCEPT !.timers = SelectSeq(@, LAMBDA u : u.id # t.id)]
    IN  SetControlIsRunning(s2, t.controlId, FALSE, FALSE)

TimerCallbackKeepsTimeout(s, t) ==
    LET s0 == [s EXCEPT !.firing = t.id]
        s1 == RunAction(s0, t.action, t.controlId, t.extras, t.id, 0)
        s2 == [s1 EXCEPT !.timers = SelectSeq(@, LAMBDA u : u.id # t.id)]
    IN  IF \E i \in 1..Len(s2.timers) : s2.timers[i].controlId = t.controlId
        THEN s2
        ELSE SetControlIsRunning(s2, t.controlId, FALSE, FALSE)

\* the callback runMultipleActions hands to setTimeout, for the timeout t
\* that the timer queue has just taken off its list
TimerCallback(s, t) ==
    LET s0 == [s EXCEPT !.scheduled = SelectSeq(@, LAMBDA u : u.id # t.id),
                        !.firing = t.id]
        Rest(s1) ==
            LET s2 == [s1 EXCEPT !.timers = SelectSeq(@, LAMBDA u : u.id # t.id)]
                hasAnotherTimer ==
                    \E i \in 1..Len(s2.timers) : s2.timers[i].controlId = t.controlId
            IN  IF ~hasAnotherTimer
                THEN SetControlIsRunning(s2, t.controlId, FALSE, FALSE)
                ELSE s2
    IN  CHOOSE r \in {IF x.thrown THEN x ELSE Rest(x) :
                          x \in {RunAction(s0, t.action, t.controlId, t.extras, t.id, 0)}} :
            TRUE

\* --------------------------------------------------------------- feedbacks
RECURSIVE GroupValuesFirstWins(_, _, _)
GroupValuesFirstWins(batch, order, values) ==
    IF batch = <<>> THEN [order |-> order, values |-> values]
    ELSE LET item == Head(batch)
             known == item.controlId \in DOMAIN values
             objForControl == IF known THEN values[item.controlId] ELSE <<>>
         IN  GroupValuesFirstWins(Tail(batch),
                         IF known THEN order ELSE Append(order, item.controlId),
                         (item.controlId :> (objForControl @@ (item.id :> item.value)))
                             @@ values)

\* the first loop of updateFeedbackValues: values[item.controlId] takes
\* objForControl[item.id] = item.value for every item of the batch; order
\* is the order of the keys of values, that of their first insertion
RECURSIVE GroupValues(_, _, _)
GroupValues(batch, order, values) ==
    IF batch = <<>> THEN [order |-> order, values |-> values]
    ELSE LET item == Head(batch)
             known == item.controlId \in DOMAIN values
             objForControl == IF known THEN values[item.controlId] ELSE <<>>
         IN  GroupValues(Tail(batch),
                         IF known THEN order ELSE Append(order, item.controlId),
                         (item.controlId :> ((item.id :> item.value) @@ objForControl))
                             @@ values)

\* control.feedbacks.updateFeedbackValues(instanceId, newValues)
ForwardValues(s, instanceId, controlId, newValues) ==
    [s EXCEPT !.forwards = Append(@, [controlId |-> controlId, instanceId |-> instanceId,
                                      values |-> newValues])]

RECURSIVE PassValuesStopsAtMissing(_, _, _, _)
PassValuesStopsAtMissing(s, instanceId, order, values) ==
    IF order = <<>> THEN s
    ELSE LET controlId == Head(order)
         IN  IF getControl(controlId) /\ HasFeedbacks(controlId)
             THEN PassValuesStopsAtMissing(
                      ForwardValues(s, instanceId, controlId, values[controlId]),
                      instanceId, Tail(order), values)
             ELSE s

\* the second loop of updateFeedbackValues, over the entries of values
RECURSIVE PassValues(_, _, _, _)
PassValues(s, instanceId, order, values) ==
    IF order = <<>> THEN s
    ELSE LET controlId == Head(order)
             s1 == IF getControl(controlId) /\ HasFeedbacks(controlId)
                   THEN ForwardValues(s, instanceId, controlId, values[controlId])
                   ELSE s
         IN  PassValues(s1, instanceId, Tail(order), values)

UpdateFeedbackValuesPerItem(s, instanceId, batch) ==
    PassValues(s, instanceId, [k \in 1..Len(batch) |-> batch[k].controlId],
               GroupValues(batch, <<>>, <<>>).values)

\* updateFeedbackValues(instanceId, result)
UpdateFeedbackValues(s, instanceId, batch) ==
    LET grouped == GroupValues(batch, <<>>, <<>>)
    IN  PassValues(s, instanceId, grouped.order, grouped.values)

\* ------------------------------------------------------- registry changes
\* resetControl and the 'controls:swap' handler, which replace entries of
\* #controls.  A control is the id it was constructed for, its type and the
\* text of its style; its configuration is the type and the text.

\* a bank id past the last button of a page
OutOfGrid == CreateBankControlId(1, MAX_BUTTONS + 1)

\* the ids resetControl and 'controls:swap' are called with
RegistryIds == ControlIds \cup {UnknownControlId, OutOfGrid}

\* #controls[controlId] is undefined
NoEntry == [controlId |-> CreateBankControlId(0, 0), type |-> "none", text |-> 0]

\* controlObj is null: a new control
NullObj == [type |-> "none", text |-> 0]

\* the text the stored configuration of a control has
StoredText(controlId) == 10 * controlId.page + controlId.bank

\* control.toJSON(true)
toJSON(control) == [type |-> control.type, text |-> control.text]

\* new Control...(registry, controlId, controlObj, isImport)
NewControl(controlId, controlType, controlObj) ==
    [controlId |-> controlId, type |-> controlType,
     text |-> IF controlObj = NullObj THEN 0 ELSE controlObj.text]

\* #createClassForControl(controlId, category, controlType, controlObj, isImport)
createClassForControl(controlId, category, controlType, controlObj) ==
    IF category \in {"all", "bank"}
           /\ controlType \in {"button", "pagenum", "pageup", "pagedown"}
    THEN NewControl(controlId, controlType, controlObj)
    ELSE IF category \in {"all", "trigger"} /\ controlType = "trigger"
    THEN NewControl(controlId, controlType, controlObj)
    ELSE NoEntry

\* #controls after init(): every stored configuration made a control
LoadedControls ==
    [controlId \in RegistryIds |->
        IF getControl(controlId)
        THEN createClassForControl(controlId, "all", ControlType(controlId),
                                   [type |-> ControlType(controlId),
                                    text |-> StoredText(controlId)])
        ELSE NoEntry]

\* #validateBankControlId(controlId); the grid has MaxPage pages
validateBankControlId(controlId) ==
    LET parsed == ParseControlId(controlId)
    IN  /\ parsed.type = "bank"
        /\ ~(parsed.page < 1 \/ parsed.page > MaxPage)
        /\ ~(parsed.bank < 1 \/ parsed.bank > MAX_BUTTONS)

\* a call made to the database, the ember+ service or the graphics
Effect(s, call, controlId) ==
    [s EXCEPT !.effects = Append(@, [call |-> call, id |-> controlId])]

\* resetControl(controlId, newType); newType "" is undefined
ResetControl(s, controlId, newType) ==
    LET s1 == IF s.controls[controlId] # NoEntry
              THEN Effect(Effect([s EXCEPT !.controls[controlId] = NoEntry],
                                 "destroy", controlId), "setKey", controlId)
              ELSE s
    IN  IF ~validateBankControlId(controlId) THEN [s1 EXCEPT !.ret = FALSE]
        ELSE LET s2 == Effect(s1, "updateBankState", controlId)
             IN  IF newType # ""
                 THEN [s2 EXCEPT !.controls[controlId] =
                                     createClassForControl(controlId, "bank", newType, NullObj),
                                 !.ret = TRUE]
                 ELSE [Effect(s2, "invalidateControl", controlId) EXCEPT !.ret = TRUE]

\* a control made from controlJson is put at controlId, if there is one
PutControl(s, controlId, control) ==
    IF control = NoEntry THEN s
    ELSE LET controlJson == toJSON(control)
             newControl == createClassForControl(controlId, "bank", controlJson.type,
                                                 controlJson)
         IN  IF newControl # NoEntry THEN [s EXCEPT !.controls[controlId] = newControl]
             ELSE s

\* 'controls:swap' where the second control is made before the first is read
ControlsSwapOverwrites(s, controlIdA, controlIdB) ==
    IF ~validateBankControlId(controlIdA) \/ ~validateBankControlId(controlIdB)
    THEN [s EXCEPT !.ret = FALSE]
    ELSE LET s1 == PutControl(ResetControl(s, controlIdB, ""), controlIdB,
                              s.controls[controlIdA])
             s2 == PutControl(ResetControl(s1, controlIdA, ""), controlIdA,
                              s1.controls[controlIdB])
         IN  [s2 EXCEPT !.ret = TRUE]

\* the 'controls:swap' handler
ControlsSwap(s, controlIdA, controlIdB) ==
    IF ~validateBankControlId(controlIdA) \/ ~validateBankControlId(controlIdB)
    THEN [s EXCEPT !.ret = FALSE]
    ELSE LET controlA == s.controls[controlIdA]
             controlB == s.controls[controlIdB]
         IN  IF controlA = NoEntry /\ controlB = NoEntry THEN [s EXCEPT !.ret = TRUE]
             ELSE LET s1 == ResetControl(ResetControl(s, controlIdA, ""), controlIdB, "")
                      s2 == PutControl(s1, controlIdB, controlA)
                      s3 == PutControl(s2, controlIdA, controlB)
                  IN  [s3 EXCEPT !.ret = TRUE]

\* ------------------------------------------------------------ connections
\* lib/Instance/Controller.ts: the modules that can be loaded, their
\* renames, and the stored connections (store.db).  Of a stored connection
\* the module, the label and the enabled flag are kept; module ids are
\* numbers in the order their names sort.

\* module ids with a manifest
MaxModules == 2
ModuleIds == 1..MaxModules

\* connections stored at once
MaxInstances == 3
InstanceIds == 1..MaxInstances

\* manifest.legacyIds holds at most one id
LegacyIdLists == {<<>>} \cup {<<id>> : id \in ModuleIds}

\* the module information #loadInfoForModulesInDir returns for a manifest
ModuleInfo(id, legacyIds) ==
    [id |-> id, legacyIds |-> legacyIds, isLegacy |-> FALSE, isOverride |-> FALSE]

\* display.shortname of a module
ShortName(id) == "m" \o ToString(id)

\* labels that are not valid under the present rules
UnsafeLabels == {"a b"}

\* makeLabelSafe(label): the characters not allowed become underscores
makeLabelSafe(label) == IF label = "a b" THEN "a_b" ELSE label

\* isLabelValid(label)
isLabelValid(label) == label # "" /\ label \notin UnsafeLabels

\* a Map without the key
Delete(map, key) == [k \in DOMAIN map \ {key} |-> map[k]]

\* a Map with the key set
Set(map, key, value) == [k \in DOMAIN map \cup {key} |-> IF k = key THEN value ELSE map[k]]

\* Object.keys(this.known_modules).sort(): the entries of a Map are not
\* properties of the object, so it has no keys
ObjectKeys(map) == <<>>

\* known_modules.set(candidate.manifest.id, candidate) for the candidates
RECURSIVE SetCandidates(_, _, _, _)
SetCandidates(s, candidates, isLegacy, isOverride) ==
    IF candidates = <<>> THEN s
    ELSE LET candidate == Head(candidates)
             info == [candidate EXCEPT !.isLegacy = isLegacy \/ @,
                                       !.isOverride = isOverride \/ @]
         IN  SetCandidates([s EXCEPT !.known_modules = Set(@, candidate.id, info)],
                           Tail(candidates), isLegacy, isOverride)

\* the legacy ids of one module become renames to it
RECURSIVE RenameLegacyIds(_, _, _, _)
RenameLegacyIds(s, id, legacyIds, isLegacy) ==
    IF legacyIds = <<>> THEN s
    ELSE LET legacyId == Head(legacyIds)
             replaces == \/ ~isLegacy
                         \/ legacyId \notin DOMAIN s.known_modules
                         \/ s.known_modules[legacyId].isLegacy
             s1 == IF replaces
                   THEN [s EXCEPT !.module_renames = Set(@, legacyId, id),
                                  !.known_modules = Delete(@, legacyId)]
                   ELSE s
         IN  RenameLegacyIds(s1, id, Tail(legacyIds), isLegacy)

\* "Figure out the redirects": the loop over the sorted keys
RECURSIVE Redirects(_, _)
Redirects(s, ids) ==
    IF ids = <<>> THEN s
    ELSE LET id == Head(ids)
             s1 == IF id \in DOMAIN s.known_modules
                   THEN RenameLegacyIds(s, id, s.known_modules[id].legacyIds,
                                        s.known_modules[id].isLegacy)
                   ELSE s
         IN  Redirects(s1, Tail(ids))

\* verifyInstanceTypeIsCurrent(instance_type)
verifyInstanceTypeIsCurrent(s, instance_type) ==
    IF instance_type \in DOMAIN s.module_renames THEN s.module_renames[instance_type]
    ELSE instance_type

\* a call made to the module host, the variables or the definitions
Notice(s, call, id) == [s EXCEPT !.effects = Append(@, [call |-> call, id |-> id])]

\* setInstanceLabelAndConfig(id, newLabel, config, skip_notify_instance);
\* newLabel "" is null
setInstanceLabelAndConfig(s, id, newLabel) ==
    IF id \notin DOMAIN s.store THEN s
    ELSE LET s1 == IF newLabel # "" /\ s.store[id].label # newLabel
                   THEN Notice([s EXCEPT !.store[id].label = newLabel],
                               "instanceLabelRename", id)
                   ELSE s
         IN  IF newLabel # "" THEN Notice(s1, "updateChildLabel", id) ELSE s1

\* activate_module(id, is_being_created)
activate_module(s, id, is_being_created) ==
    IF id \notin DOMAIN s.store THEN Throw(s)
    ELSE LET s1 == [s EXCEPT !.store[id].instance_type =
                                 verifyInstanceTypeIsCurrent(s, @)]
             config == s1.store[id]
             safeLabel == makeLabelSafe(config.label)
             s2 == IF ~is_being_created /\ safeLabel # config.label
                   THEN setInstanceLabelAndConfig(s1, id, safeLabel)
                   ELSE s1
         IN  IF ~config.enabled THEN s1
             ELSE IF s2.store[id].instance_type \in DOMAIN s2.known_modules
             THEN Notice(s2, "queueRestartConnection", id)
             ELSE s2

\* for (const id in this.store.db) this.activate_module(id, false)
RECURSIVE ActivateAll(_, _)
ActivateAll(s, ids) ==
    IF ids = {} THEN s
    ELSE LET id == CHOOSE i \in ids : \A j \in ids : i <= j
         IN  ActivateAll(activate_module(s, id, FALSE), ids \ {id})

\* initInstances(extraModulePath) with the manifests found in the three
\* directories
InitInstances(s, legacyCandidates, candidates, extraCandidates) ==
    LET s1 == SetCandidates(s, legacyCandidates, TRUE, FALSE)
        s2 == SetCandidates(s1, candidates, FALSE, FALSE)
        s3 == SetCandidates(s2, extraCandidates, FALSE, TRUE)
        s4 == Redirects(s3, ObjectKeys(s3.known_modules))
    IN  ActivateAll(s4, DOMAIN s4.store)

\* the while loop of makeLabelUnique
RECURSIVE NextFreeLabel(_, _, _)
NextFreeLabel(knownLabels, prefix, i) ==
    IF prefix \o "_" \o ToString(i) \in knownLabels
    THEN NextFreeLabel(knownLabels, prefix, i + 1)
    ELSE prefix \o "_" \o ToString(i)

\* makeLabelUnique(prefix, ignoreId); ignoreId 0 is undefined
makeLabelUnique(s, prefix, ignoreId) ==
    LET knownLabels == {s.store[id].label :
                           id \in {i \in DOMAIN s.store : i # ignoreId /\ s.store[i].label # ""}}
        safe == makeLabelSafe(prefix)
    IN  IF safe \in knownLabels THEN NextFreeLabel(knownLabels, safe, 2) ELSE safe

\* addInstance(data, disabled) where nanoid() gives id; the reply is the id
\* or 0 for undefined
addInstance(s, id, module, disabled) ==
    IF module \in DOMAIN s.known_modules
    THEN LET config == [instance_type |-> module,
                        label |-> makeLabelUnique(s, ShortName(module), 0),
                        enabled |-> FALSE]
             s1 == [s EXCEPT !.store = Set(@, id, config)]
         IN  [activate_module(s1, id, TRUE) EXCEPT !.reply = ToString(id)]
    ELSE [s EXCEPT !.reply = ""]

\* getIdForLabel(label); 0 is undefined
getIdForLabel(s, label) ==
    LET ids == {id \in DOMAIN s.store : s.store[id].label = label}
    IN  IF ids = {} THEN 0 ELSE CHOOSE i \in ids : \A j \in ids : i <= j

\* 'instances:set-config'(id, label, config); the reply "" is null
SetConfig(s, id, label) ==
    LET idUsingLabel == getIdForLabel(s, label)
    IN  IF idUsingLabel # 0 /\ idUsingLabel # id THEN [s EXCEPT !.reply = "duplicate label"]
        ELSE IF ~isLabelValid(label) THEN [s EXCEPT !.reply = "invalid label"]
        ELSE [setInstanceLabelAndConfig(s, id, label) EXCEPT !.reply = ""]

\* deleteInstance(id); the stop of the connection it waits for changes
\* nothing in the store
deleteInstance(s, id) ==
    IF id \notin DOMAIN s.store THEN s
    ELSE Notice([Notice(s, "queueStopConnection", id) EXCEPT !.store = Delete(@, id)],
                "forgetInstance", id)

\* store.db as loaded from the database: a connection of a legacy module
\* with a label from before the present rules, and a connection of the module
\* that replaces it
StoredInstances ==
    (1 :> [instance_type |-> 1, label |-> "a b", enabled |-> TRUE])
        @@ (2 :> [instance_type |-> 2, label |-> "a_b", enabled |-> TRUE])

\* ------------------------------------------------------------------- state
VARIABLES timers, scheduled, running, pushed, signals, dispatched, armed,
          cleared, events, result, forwards, unsettled, step, thrown,
          controls, effects, known_modules, module_renames, store, reply, lastOp

vars == <<timers, scheduled, running, pushed, signals, dispatched, armed,
          cleared, events, result, forwards, unsettled, step, thrown,
          controls, effects, known_modules, module_renames, store, reply, lastOp>>

\* the state an operation starts from: the call logs are those of one operation
Start ==
    [timers |-> timers, scheduled |-> scheduled, running |-> running,
     pushed |-> pushed, firing |-> 0, signals |-> <<>>, dispatched |-> <<>>,
     armed |-> <<>>, cleared |-> {}, runs |-> 0, overflow |-> FALSE,
     events |-> <<>>, ret |-> FALSE, forwards |-> <<>>, unsettled |-> unsettled,
     step |-> step, thrown |-> FALSE, controls |-> controls, effects |-> <<>>,
     known_modules |-> known_modules, module_renames |-> module_renames,
     store |-> store, reply |-> ""]

\* the state an operation leaves
Commit(s) ==
    /\ ~s.overflow
    /\ timers' = s.timers
    /\ scheduled' = s.scheduled
    /\ running' = s.running
    /\ pushed' = s.pushed
    /\ signals' = s.signals
    /\ dispatched' = s.dispatched
    /\ armed' = s.armed
    /\ cleared' = s.cleared
    /\ events' = s.events
    /\ result' = s.ret
    /\ forwards' = s.forwards
    /\ unsettled' = s.unsettled
    /\ step' = s.step
    /\ thrown' = s.thrown
    /\ controls' = s.controls
    /\ effects' = s.effects
    /\ known_modules' = s.known_modules
    /\ module_renames' = s.module_renames
    /\ store' = s.store
    /\ reply' = s.reply

\* the operation a step performs, with its arguments
Op(op, controlId, actions, relative_delay, skipUp, page, skipControlIds, timer) ==
    [op |-> op, controlId |-> controlId, actions |-> actions,
     relative_delay |-> relative_delay, skipUp |-> skipUp, page |-> page,
     skipControlIds |-> skipControlIds, timer |-> timer]

NoControl == CreateBankControlId(0, 0)

\* the delayed connector action
Delayed == ConnectorAction(NumDelay(1))

\* the other actions button 1-1 is run with: a connector action at once, and
\* the internal actions that re-enter the scheduler, at once or delayed
OtherInputs ==
    {ConnectorAction(NoDelay),
     Action(0, "internal", "panic", NoDelay, FALSE, 0, 0, FALSE, FALSE),
     Action(0, "internal", "panic", NumDelay(1), FALSE, 0, 0, FALSE, FALSE),
     Action(0, "internal", "panic_bank", NoDelay, FALSE, 0, 0, FALSE, FALSE),
     Action(0, "internal", "panic_bank", NumDelay(1), FALSE, 0, 0, FALSE, FALSE),
     Action(0, "internal", "panic_bank", NoDelay, FALSE, 1, 2, TRUE, FALSE),
     Action(0, "internal", "panic_page", NoDelay, FALSE, 0, NoBank, FALSE, FALSE),
     Action(0, "internal", "panic_page", NoDelay, FALSE, 0, NoBank, FALSE, TRUE),
     Action(0, "internal", "button_press", NoDelay, FALSE, 1, 2, FALSE, FALSE),
     Action(0, "internal", "button_press", NumDelay(1), FALSE, 1, 2, FALSE, FALSE)}

\* lists of at most MaxLen actions, at most one of them not the delayed
\* connector action
ListsOver(inputs) ==
    UNION {{list \in [1..n -> inputs \cup {Delayed}] :
               Cardinality({i \in 1..n : list[i] # Delayed}) <= 1} : n \in 0..MaxLen}

\* a disabled action
Disabled == Action(0, "conn1", "run", NumDelay(1), TRUE, 0, 0, FALSE, FALSE)

\* the action lists each control is run with: button 1-1 with every list
\* and with lists of disabled actions only, the other controls that can
\* show running actions with the delayed connector action
RunInputs(controlId) ==
    IF controlId = CreateBankControlId(1, 1)
    THEN ListsOver(OtherInputs) \cup {<<Disabled>>, <<Disabled, Disabled>>}
    ELSE IF getControl(controlId) /\ HasSetActionsRunning(controlId) THEN {<<Delayed>>}
    ELSE {}

\* the delay mode a control is configured with
DelayModes(controlId) ==
    IF controlId = CreateBankControlId(1, 1) THEN BOOLEAN
    ELSE {ButtonConfig(controlId).relative_delay}

Init ==
    /\ timers = <<>>
    /\ scheduled = <<>>
    /\ running = [c \in RunningControls |-> FALSE]
    /\ pushed = [c \in {d \in ControlIds : ControlType(d) = "button"} |-> FALSE]
    /\ signals = <<>>
    /\ dispatched = <<>>
    /\ armed = <<>>
    /\ cleared = {}
    /\ events = <<>>
    /\ result = FALSE
    /\ forwards = <<>>
    /\ unsettled = <<>>
    /\ step = [c \in {d \in ControlIds : HasSteps(d)} |-> 0]
    /\ thrown = FALSE
    /\ controls = LoadedControls
    /\ effects = <<>>
    /\ known_modules = <<>>
    /\ module_renames = <<>>
    /\ store = StoredInstances
    /\ reply = ""
    /\ lastOp = Op("init", NoControl, <<>>, FALSE, FALSE, 0, {}, 0)

\* a control (or trigger) runs an action list
Run(controlId, list, relative_delay) ==
    /\ Commit(RunMultipleActions(Start, WithIds(list), controlId, relative_delay))
    /\ Len(scheduled') <= MaxTimers
    /\ lastOp' = Op("run", controlId, WithIds(list), relative_delay, FALSE, 0, {}, 0)

\* the timeout the timer queue fires next: it is due, and no timeout of
\* the same delay that is due was armed before it
MayFire(i) ==
    /\ scheduled[i].remaining = 0
    /\ \A j \in 1..(i - 1) :
           ~(scheduled[j].remaining = 0 /\ scheduled[j].delay = scheduled[i].delay)

\* a timeout fires
Fire(i) ==
    /\ MayFire(i)
    /\ Commit(TimerCallback(Start, scheduled[i]))
    /\ lastOp' = Op("fire", scheduled[i].controlId, <<>>, FALSE, FALSE, 0, {}, scheduled[i].id)

\* abortAllDelayed() called from outside a run
AbortAll ==
    /\ Commit(AbortAllDelayed(Start))
    /\ lastOp' = Op("abortAll", NoControl, <<>>, FALSE, FALSE, 0, {}, 0)

\* abortControlDelayed(controlId, skipUp) called from outside a run
AbortControl(controlId, skipUp) ==
    /\ Commit(AbortControlDelayed(Start, controlId, skipUp))
    /\ lastOp' = Op("abortControl", controlId, <<>>, FALSE, skipUp, 0, {}, 0)

\* abortPageDelayed(page, skipControlIds) called from outside a run
AbortPage(page, skipControlIds) ==
    /\ Commit(AbortPageDelayed(Start, page, skipControlIds))
    /\ lastOp' = Op("abortPage", NoControl, <<>>, FALSE, FALSE, page, skipControlIds, 0)

\* time passes, by one unit, while no timeout is due
Tick ==
    /\ scheduled # <<>>
    /\ \A i \in 1..Len(scheduled) : scheduled[i].remaining > 0
    /\ Commit([Start EXCEPT !.scheduled =
                   [i \in 1..Len(scheduled) |-> [scheduled[i] EXCEPT !.remaining = @ - 1]]])
    /\ lastOp' = Op("tick", NoControl, <<>>, FALSE, FALSE, 0, {}, 0)

Next ==
    \/ \E controlId \in ControlIds :
           \E list \in RunInputs(controlId), relative_delay \in DelayModes(controlId) :
               Run(controlId, list, relative_delay)
    \/ \E i \in 1..Len(scheduled) : Fire(i)
    \/ AbortAll
    \/ \E controlId \in ControlIds, skipUp \in BOOLEAN : AbortControl(controlId, skipUp)
    \/ \E page \in 1..MaxPage :
           \E skipControlIds \in {{}, {CreateBankControlId(page, 1)}} :
               AbortPage(page, skipControlIds)
    \/ Tick

Spec == Init /\ [][Next]_vars

\* ------------------------------------------------------------ a single run
\* One call of runMultipleActions on its own, with every form of delay and
\* with disabled actions, and the timers it leaves firing.
RunListInputs ==
    {ConnectorAction(d) : d \in {NoDelay, NanDelay, NumDelay(0), NumDelay(0 - 5),
                                 NumDelay(5), NumDelay(10), StrDelay(5)}}
    \cup {Action(0, "conn1", "run", NumDelay(5), TRUE, 0, 0, FALSE, FALSE),
          Action(0, "internal", "panic", NoDelay, FALSE, 0, 0, FALSE, FALSE),
          Action(0, "internal", "button_press", NoDelay, FALSE, 1, 2, FALSE, FALSE)}
    \cup {Action(0, instance, "run", d, FALSE, 0, 0, FALSE, FALSE) :
              instance \in {"conn2", "conn3", "conn4"}, d \in {NoDelay, NumDelay(5)}}

RunLists == UNION {[1..n -> RunListInputs] : n \in 0..MaxRunLen}

RunOnce(controlId, list, relative_delay) ==
    /\ lastOp.op = "init"
    /\ Commit(RunMultipleActions(Start, WithIds(list), controlId, relative_delay))
    /\ lastOp' = Op("run", controlId, WithIds(list), relative_delay, FALSE, 0, {}, 0)

NextRun ==
    \/ \E controlId \in {CreateBankControlId(1, 1), CreateTriggerControlId(1)} :
           \E list \in RunLists, relative_delay \in BOOLEAN :
               RunOnce(controlId, list, relative_delay)
    \/ \E i \in 1..Len(scheduled) : Fire(i)
    \/ Tick

SpecRun == Init /\ [][NextRun]_vars

\* One call of runMultipleActions in relative mode, and the timers it
\* leaves firing.
NextRelative ==
    \/ \E controlId \in {CreateBankControlId(1, 1), CreateTriggerControlId(1)} :
           \E list \in RunLists : RunOnce(controlId, list, TRUE)
    \/ \E i \in 1..Len(scheduled) : Fire(i)
    \/ Tick

SpecRelative == Init /\ [][NextRelative]_vars

\* ------------------------------------------------------ press and rotate
\* The calls of pressControl and rotateControl from surfaces and the
\* user interface, and the timers the presses leave firing.

\* pressControl(controlId, pressed, deviceId)
Press(controlId, pressed) ==
    /\ Commit(PressControl(Start, controlId, pressed))
    /\ Len(scheduled') <= MaxTimers
    /\ lastOp' = [pressed |-> pressed] @@ Op("press", controlId, <<>>, FALSE, FALSE, 0, {}, 0)

\* rotateControl(controlId, direction, deviceId)
Rotate(controlId, direction) ==
    /\ Commit(RotateControl(Start, controlId, direction))
    /\ Len(scheduled') <= MaxTimers
    /\ lastOp' = [direction |-> direction] @@ Op("rotate", controlId, <<>>, FALSE, FALSE, 0, {}, 0)

NextDispatch ==
    \/ \E controlId \in DispatchIds, pressed \in BOOLEAN : Press(controlId, pressed)
    \/ \E controlId \in DispatchIds, direction \in BOOLEAN : Rotate(controlId, direction)
    \/ \E i \in 1..Len(scheduled) : Fire(i)
    \/ Tick

SpecDispatch == Init /\ [][NextDispatch]_vars

\* ------------------------------------------------------- feedback batches
\* One call of updateFeedbackValues on its own, with every batch of up to
\* MaxBatch values for two buttons, the page-navigation button and an id
\* without a control.
FeedbackIds == {"f1", "f2", "f3"}

FeedbackTargets ==
    {CreateBankControlId(1, 1), CreateBankControlId(1, 2), CreateBankControlId(2, 2),
     UnknownControlId}

FeedbackItems == [controlId : FeedbackTargets, id : FeedbackIds, value : BOOLEAN]

Batches == UNION {[1..n -> FeedbackItems] : n \in 0..MaxBatch}

\* a connector reports the values of its feedbacks
Feedback(instanceId, batch) ==
    /\ lastOp.op = "init"
    /\ Commit(UpdateFeedbackValues(Start, instanceId, batch))
    /\ lastOp' = [instanceId |-> instanceId, batch |-> batch]
                     @@ Op("feedback", NoControl, <<>>, FALSE, FALSE, 0, {}, 0)

NextFeedback == \E instanceId \in Connectors, batch \in Batches : Feedback(instanceId, batch)

SpecFeedback == Init /\ [][NextFeedback]_vars

\* ------------------------------------------------------------------ steps
\* The internal actions that set and advance the step of a button, run at
\* once or delayed by button 1-1, among timers of connector actions.

\* 'bank_current_step' with options.step = n
SetStep(page, bank, n, delay) ==
    [Action(0, "internal", "bank_current_step", delay, FALSE, page, bank, FALSE, FALSE)
         EXCEPT !.step = n]

\* 'bank_current_step_delta' with options.amount = d
SkipStep(page, bank, d, delay) ==
    [Action(0, "internal", "bank_current_step_delta", delay, FALSE, page, bank, FALSE, FALSE)
         EXCEPT !.amount = d]

\* the step numbers and amounts the actions are configured with
StepNumbers == 1..(StepCount + 1)

StepAmounts == (0 - StepCount - 1)..(StepCount + 1)

StepInputs ==
    {SetStep(0, 0, n, NoDelay) : n \in StepNumbers}
    \cup {SkipStep(0, 0, d, NoDelay) : d \in StepAmounts}
    \cup {SetStep(0, 0, 1, NumDelay(1)), SkipStep(0, 0, 0 - 1, NumDelay(1)),
          SetStep(1, 2, 1, NoDelay), SkipStep(1, 2, 1, NoDelay),
          SetStep(2, 2, 1, NoDelay)}

StepLists ==
    {<<a>> : a \in StepInputs \cup {Delayed}} \cup {<<Delayed, a>> : a \in StepInputs}

NextStep ==
    \/ \E list \in StepLists : Run(CreateBankControlId(1, 1), list, FALSE)
    \/ \E i \in 1..Len(scheduled) : Fire(i)
    \/ Tick

SpecStep == Init /\ [][NextStep]_vars

\* ------------------------------------------------------- failing dispatch
\* Runs of button 1-1 with internal actions whose options are missing, at
\* once or delayed, among connector actions; the trigger runs the delayed
\* connector action.

\* an internal action without options
Malformed(delay) ==
    [Action(0, "internal", "button_press", delay, FALSE, 1, 2, FALSE, FALSE)
         EXCEPT !.options = FALSE]

ThrowInputs ==
    {Delayed, ConnectorAction(NoDelay), Malformed(NoDelay), Malformed(NumDelay(1))}

ThrowLists(controlId) ==
    IF controlId = CreateBankControlId(1, 1)
    THEN UNION {[1..n -> ThrowInputs] : n \in 1..MaxLen}
    ELSE {<<Delayed>>}

NextThrow ==
    \/ \E controlId \in {CreateBankControlId(1, 1), CreateTriggerControlId(1)} :
           \E list \in ThrowLists(controlId) : Run(controlId, list, FALSE)
    \/ \E i \in 1..Len(scheduled) : Fire(i)
    \/ Tick

SpecThrow == Init /\ [][NextThrow]_vars

\* ------------------------------------------------------- registry changes
\* The calls of 'controls:reset' and 'controls:swap' from the user
\* interface, with ids on and off the grid and types known and unknown.
NewTypes == {"", "button", "bogus"}

\* the ids 'controls:reset' is called with
ResetIds ==
    {CreateBankControlId(1, 1), CreateBankControlId(2, 1), CreateTriggerControlId(1),
     UnknownControlId, OutOfGrid}

\* the ids 'controls:swap' is called with
SwapIds ==
    {CreateBankControlId(1, 1), CreateBankControlId(1, 2), CreateBankControlId(2, 2),
     CreateTriggerControlId(1), OutOfGrid}

\* 'controls:reset'(controlId, type)
Reset(controlId, newType) ==
    /\ Commit(ResetControl(Start, controlId, newType))
    /\ lastOp' = [newType |-> newType] @@ Op("reset", controlId, <<>>, FALSE, FALSE, 0, {}, 0)

\* 'controls:swap'(controlIdA, controlIdB)
Swap(controlIdA, controlIdB) ==
    /\ Commit(ControlsSwap(Start, controlIdA, controlIdB))
    /\ lastOp' = [controlIdB |-> controlIdB]
                     @@ Op("swap", controlIdA, <<>>, FALSE, FALSE, 0, {}, 0)

NextRegistry ==
    \/ \E controlId \in ResetIds, newType \in NewTypes : Reset(controlId, newType)
    \/ \E controlIdA \in SwapIds, controlIdB \in SwapIds : Swap(controlIdA, controlIdB)

SpecRegistry == Init /\ [][NextRegistry]_vars

\* ------------------------------------------------------------ connections
\* the manifests a directory holds: at most one for a module id, in the
\* order of the ids
Listing(ids, legacyIds) ==
    [k \in 1..Cardinality(ids) |->
        LET id == CHOOSE i \in ids : Cardinality({j \in ids : j < i}) = k - 1
        IN  ModuleInfo(id, legacyIds[id])]

\* no manifest lists the id of its own module
Listings ==
    UNION {{Listing(ids, legacyIds) :
               legacyIds \in {l \in [ids -> LegacyIdLists] : \A id \in ids : l[id] # <<id>>}} :
              ids \in SUBSET ModuleIds}

\* the extra module path is not set, or holds one module
ExtraListings == {listing \in Listings : Len(listing) <= 1}

\* initInstances(extraModulePath), called once at startup
InitInst(legacyCandidates, candidates, extraCandidates) ==
    /\ lastOp.op = "init"
    /\ Commit(InitInstances(Start, legacyCandidates, candidates, extraCandidates))
    /\ lastOp' = [legacyCandidates |-> legacyCandidates, candidates |-> candidates,
                  extraCandidates |-> extraCandidates]
                     @@ Op("initInstances", NoControl, <<>>, FALSE, FALSE, 0, {}, 0)

\* Startup with every combination of manifests in the three directories.
NextModules ==
    \E legacyCandidates \in Listings, candidates \in Listings,
       extraCandidates \in ExtraListings :
        InitInst(legacyCandidates, candidates, extraCandidates)

SpecModules == Init /\ [][NextModules]_vars

\* the ids nanoid() can give: those no stored connection has
FreshIds == InstanceIds \ DOMAIN store

\* the modules 'instances:add' is called with: the known ones and one more
AddTypes == 1..(MaxModules + 1)

\* the labels 'instances:set-config' is called with
ConfigLabels == {"a b", "a_b", ShortName(2), ""}

\* 'instances:add'(module)
Add(id, module) ==
    /\ lastOp.op # "init"
    /\ Commit(addInstance(Start, id, module, FALSE))
    /\ lastOp' = [instanceId |-> id, module |-> module]
                     @@ Op("add", NoControl, <<>>, FALSE, FALSE, 0, {}, 0)

\* 'instances:set-config'(id, label, config)
SetCfg(id, label) ==
    /\ lastOp.op # "init"
    /\ Commit(SetConfig(Start, id, label))
    /\ lastOp' = [instanceId |-> id, label |-> label]
                     @@ Op("set-config", NoControl, <<>>, FALSE, FALSE, 0, {}, 0)

\* activate_module(id) of a power resume or an enable
Activate(id) ==
    /\ lastOp.op # "init"
    /\ Commit(activate_module(Start, id, FALSE))
    /\ lastOp' = [instanceId |-> id] @@ Op("activate", NoControl, <<>>, FALSE, FALSE, 0, {}, 0)

\* 'instances:delete'(id)
DeleteInst(id) ==
    /\ lastOp.op # "init"
    /\ Commit(deleteInstance(Start, id))
    /\ lastOp' = [instanceId |-> id] @@ Op("delete", NoControl, <<>>, FALSE, FALSE, 0, {}, 0)

\* Startup with a legacy module and the module that replaces it, then the
\* calls of the user interface in any order.
NextInstances ==
    \/ InitInst(<<ModuleInfo(1, <<>>)>>, <<ModuleInfo(2, <<1>>)>>, <<>>)
    \/ \E id \in FreshIds, module \in AddTypes : Add(id, module)
    \/ \E id \in InstanceIds, label \in ConfigLabels : SetCfg(id, label)
    \/ \E id \in InstanceIds : Activate(id)
    \/ \E id \in InstanceIds : DeleteInst(id)

SpecInstances == Init /\ [][NextInstances]_vars

\* ================================================================== claims
Owners(entries) == {entries[i].controlId : i \in 1..Len(entries)}

\* the running=false calls for controlId among the calls of an operation
FalseSignals(calls, controlId) ==
    SelectSeq(calls, LAMBDA e : e.controlId = controlId /\ ~e.running)

\* the last operation made an abort call, from outside or through an
\* internal action
AbortInStep ==
    \/ lastOp.op \in {"abortAll", "abortControl", "abortPage"}
    \/ \E i \in 1..Len(dispatched) :
           dispatched[i].action \in {"panic", "panic_bank", "panic_page"}

\* the timeout with handle timer
ScheduledEntry(timer) == CHOOSE e \in {scheduled[i] : i \in 1..Len(scheduled)} : e.id = timer

X == CreateBankControlId(1, 1)
Y == CreateBankControlId(1, 2)

\* C1: between operations, a registered control's running flag is true
\* exactly when #timers_running holds a timer owned by the control.
C1_RunningIffPending ==
    \A c \in RunningControls : running[c] <=> c \in Owners(timers)

\* C2: abortControlDelayed(id, _) removes exactly the timers owned by id;
\* every other timer stays pending with its due time, and no other
\* control's running flag changes.
C2_AbortControlFrame ==
    [][lastOp'.op = "abortControl" =>
          LET id == lastOp'.controlId
          IN  /\ timers' = SelectSeq(timers, LAMBDA t : t.controlId # id)
              /\ scheduled' = SelectSeq(scheduled, LAMBDA t : t.controlId # id)
              /\ \A c \in RunningControls \ {id} : running'[c] = running[c]]_vars

C2_Witness ==
    /\ lastOp.op = "abortControl"
    /\ cleared # {}
    /\ timers # <<>>
    /\ \E c \in RunningControls \ {lastOp.controlId} : running[c]

\* C3: with one delayed action pending on each of two controls, aborting
\* the first makes its running flag false within the call and takes its
\* timeout off the timer queue, so that it is never dispatched; the second
\* control's timeout stays armed with its running flag set, and when it
\* fires it dispatches its action and only then clears the flag.
C3_AbortOneOfTwo ==
    [][\A x, y \in RunningControls :
          (/\ x # y
           /\ Len(TimersOf(scheduled, x)) = 1 /\ Len(TimersOf(timers, x)) = 1
           /\ Len(TimersOf(scheduled, y)) = 1 /\ Len(TimersOf(timers, y)) = 1
           /\ running[y])
          => /\ (lastOp'.op = "abortControl" /\ lastOp'.controlId = x)
                  => /\ ~running'[x]
                     /\ TimersOf(scheduled', x) = <<>>
                     /\ dispatched' = <<>>
                     /\ TimersOf(scheduled', y) = TimersOf(scheduled, y)
                     /\ running'[y]
             /\ (lastOp'.op = "fire" /\ lastOp'.controlId = y /\ ~AbortInStep')
                  => /\ dispatched'[1].timer = TimersOf(timers, y)[1].id
                     /\ dispatched'[1].id = TimersOf(scheduled, y)[1].action.id
                     /\ Len(FalseSignals(signals', y)) = 1
                     /\ ~running'[y]]_vars

C3_Witness ==
    /\ lastOp.op = "abortControl"
    /\ lastOp.controlId = X
    /\ Cardinality(cleared) = 1
    /\ ~running[X]
    /\ Len(TimersOf(scheduled, Y)) = 1
    /\ running[Y]

\* C4: abortAllDelayed() calls #setControlIsRunning(id, false) exactly once
\* for every control id that owned a pending timer, however many it owned,
\* and makes no call for any other id.
C4_AbortAllOncePerControl ==
    [][lastOp'.op = "abortAll" =>
          /\ \A i \in 1..Len(signals') : ~signals'[i].running
          /\ \A c \in ControlIds :
                 Len(FalseSignals(signals', c)) = IF c \in Owners(timers) THEN 1 ELSE 0]_vars

C4_Witness ==
    /\ lastOp.op = "abortAll"
    /\ Cardinality(cleared) = 2
    /\ Len(signals) = 1

\* C5: a timer an abort removed from #timers_running is, when the operation
\* returns, neither in #timers_running nor armed in the timer queue, so its
\* callback can never run.
C5_CancelledNotPending ==
    \A timer \in cleared :
        timer \notin TimerIds(timers) /\ timer \notin TimerIds(scheduled)

C5_Witness ==
    /\ lastOp.op \in {"abortAll", "abortControl"}
    /\ cleared # {}
    /\ scheduled # <<>>

\* C6: a run that arms a timer for a registered control leaves the running
\* flag true; while the control owns exactly one timer and no abort removes
\* it, running=false is signalled once, by the fire of that timer after it
\* has dispatched its action, and by no other operation.
C6_RunningUntilFired ==
    [][/\ (/\ lastOp'.op = "run"
           /\ lastOp'.controlId \in RunningControls
           /\ \E i \in 1..Len(armed') : armed'[i].run = 1)
          => running'[lastOp'.controlId]
       /\ \A c \in RunningControls :
              (Len(TimersOf(timers, c)) = 1 /\ TimersOf(timers, c)[1].id \notin cleared')
              => IF lastOp'.op = "fire" /\ lastOp'.timer = TimersOf(timers, c)[1].id
                 THEN /\ dispatched'[1].timer = lastOp'.timer
                      /\ Len(FalseSignals(signals', c)) =
                             IF TimersOf(timers', c) = <<>> THEN 1 ELSE 0
                      /\ TimersOf(timers', c) = <<>> => ~running'[c]
                 ELSE FalseSignals(signals', c) = <<>>]_vars

C6_Witness ==
    /\ lastOp.op = "fire"
    /\ Len(dispatched) = 1
    /\ dispatched[1].instance = "conn1"
    /\ Len(signals) = 1
    /\ signals[1].delivered /\ ~signals[1].running
    /\ ~running[lastOp.controlId]

\* C7: a fire without an abort dispatches the action of its own timer, once,
\* and no other timer's; it removes its own entry of #timers_running and no
\* other; and it signals running=false once if it leaves the control without
\* a pending timer, and not at all otherwise.
C7_FireOwnTimerOnly ==
    [][(lastOp'.op = "fire" /\ ~AbortInStep') =>
          LET t == lastOp'.timer
              c == lastOp'.controlId
              own == SelectSeq(dispatched', LAMBDA d : d.timer # 0)
          IN  /\ Len(own) = 1
              /\ own[1] = dispatched'[1]
              /\ own[1].timer = t
              /\ own[1].controlId = c
              /\ own[1].id = ScheduledEntry(t).action.id
              /\ SelectSeq(timers', LAMBDA u : u.id \in TimerIds(timers))
                     = SelectSeq(timers, LAMBDA u : u.id # t)
              /\ Len(FalseSignals(signals', c)) = IF TimersOf(timers', c) = <<>> THEN 1 ELSE 0]_vars

C7_Witness ==
    /\ lastOp.op = "fire"
    /\ ~AbortInStep
    /\ dispatched # <<>>
    /\ signals = <<>>
    /\ TimersOf(timers, lastOp.controlId) # <<>>
    /\ running[lastOp.controlId]

\* C8: at the moment of every running=false call, #timers_running holds no
\* timer owned by the control the call is for.
C8_FalseOnlyWhenNonePending ==
    \A i \in 1..Len(signals) : ~signals[i].running => signals[i].pending = 0

C8_Witness ==
    /\ \E i \in 1..Len(signals) : ~signals[i].running /\ signals[i].delivered
    /\ cleared # {}
    /\ timers # <<>>

\* the delay of an action as a number: 0 when it is missing or not numeric
CoercedDelay(action) ==
    IF action.delay.t \in {"missing", "nan"} THEN 0 ELSE action.delay.v

RECURSIVE SumCoerced(_, _)
SumCoerced(actions, i) ==
    IF i = 0 THEN 0 ELSE SumCoerced(actions, i - 1) + CoercedDelay(actions[i])

\* the effective delay the i-th enabled action is to have
ExpectedDelay(actions, i, relative_delay) ==
    IF relative_delay THEN SumCoerced(actions, i) ELSE CoercedDelay(actions[i])

PositionOf(actions, action) == CHOOSE i \in 1..Len(actions) : actions[i].id = action.id

Ids(calls) == [i \in 1..Len(calls) |-> calls[i].id]

\* C9: when a run returns, the enabled actions with effective delay <= 0
\* have been dispatched, in input order, and no action with effective
\* delay > 0 has been.
C9_ImmediateInOrder ==
    lastOp.op = "run" =>
        LET en == EnabledActions(lastOp.actions)
            immediate == SelectSeq(en, LAMBDA a :
                ExpectedDelay(en, PositionOf(en, a), lastOp.relative_delay) <= 0)
        IN  /\ Ids(SelectSeq(dispatched, LAMBDA d : d.run = 1)) = Ids(immediate)
            /\ \A i \in 1..Len(dispatched) : dispatched[i].timer = 0

C9_Witness ==
    /\ lastOp.op = "run"
    /\ Ids(SelectSeq(dispatched, LAMBDA d : d.run = 1)) = <<1, 3>>
    /\ Ids(armed) = <<2>>
    /\ lastOp.actions[1].delay = NumDelay(0 - 5)

\* C10: in relative mode the effective delay of the i-th enabled action is
\* the sum of the coerced delays of the enabled actions up to it, in
\* absolute mode its own coerced delay; a timer is armed with that delay.
C10_EffectiveDelays ==
    lastOp.op = "run" =>
        LET en == EnabledActions(lastOp.actions)
            effective_delays == EffectiveDelays(en, lastOp.relative_delay)
        IN  /\ \A i \in 1..Len(en) :
                   effective_delays[en[i].id] = ExpectedDelay(en, i, lastOp.relative_delay)
            /\ \A k \in 1..Len(armed) :
                   (armed[k].run = 1 /\ armed[k].timer \in TimerIds(scheduled))
                   => ScheduledEntry(armed[k].timer).delay =
                          ExpectedDelay(en, PositionOf(en, [id |-> armed[k].id]),
                                        lastOp.relative_delay)

C10_Witness ==
    /\ lastOp.op = "run"
    /\ lastOp.relative_delay
    /\ [i \in 1..Len(lastOp.actions) |-> lastOp.actions[i].delay]
           = <<NumDelay(5), NumDelay(0), NumDelay(10)>>
    /\ [i \in 1..Len(scheduled) |-> scheduled[i].delay] = <<5, 5, 15>>

\* C11: a run of an empty list, or of disabled actions only, dispatches
\* nothing, arms no timer and makes no #setControlIsRunning call; the
\* pending timers, the armed timeouts and every control's flags stay as
\* they were.
C11_NothingToRunIsNoOp ==
    [][(lastOp'.op = "run" /\ \A i \in 1..Len(lastOp'.actions) : lastOp'.actions[i].disabled)
          => /\ dispatched' = <<>>
             /\ armed' = <<>>
             /\ signals' = <<>>
             /\ timers' = timers
             /\ scheduled' = scheduled
             /\ running' = running
             /\ pushed' = pushed]_vars

C11_Witness ==
    /\ lastOp.op = "run"
    /\ Len(lastOp.actions) = 2
    /\ \A i \in 1..Len(lastOp.actions) : lastOp.actions[i].disabled
    /\ Len(timers) = 2
    /\ running[lastOp.controlId]

\* a list without its disabled actions
RECURSIVE WithoutDisabled(_)
WithoutDisabled(list) ==
    IF list = <<>> THEN <<>>
    ELSE IF Head(list).disabled THEN WithoutDisabled(Tail(list))
    ELSE <<Head(list)>> \o WithoutDisabled(Tail(list))

\* C12: a run does what the run of the same list without its disabled
\* actions does: the same dispatches, the same timers with the same delays,
\* the same calls to the control; no disabled action is dispatched or
\* scheduled.
C12_DisabledAsRemoved ==
    [][lastOp'.op = "run" =>
          LET ref == RunMultipleActions(Start, WithoutDisabled(lastOp'.actions),
                                        lastOp'.controlId, lastOp'.relative_delay)
          IN  /\ timers' = ref.timers
              /\ scheduled' = ref.scheduled
              /\ running' = ref.running
              /\ pushed' = ref.pushed
              /\ signals' = ref.signals
              /\ dispatched' = ref.dispatched
              /\ armed' = ref.armed
              /\ \A i \in 1..Len(lastOp'.actions) :
                     lastOp'.actions[i].disabled
                     => /\ \A k \in 1..Len(dispatched') :
                               dispatched'[k].run = 1 => dispatched'[k].id # i
                        /\ \A k \in 1..Len(armed') :
                               armed'[k].run = 1 => armed'[k].id # i]_vars

C12_Witness ==
    /\ lastOp.op = "run"
    /\ lastOp.relative_delay
    /\ Len(lastOp.actions) = 3
    /\ lastOp.actions[1].delay = NumDelay(5) /\ ~lastOp.actions[1].disabled
    /\ lastOp.actions[2].delay = NumDelay(5) /\ lastOp.actions[2].disabled
    /\ lastOp.actions[3].delay = NumDelay(10) /\ ~lastOp.actions[3].disabled
    /\ [i \in 1..Len(scheduled) |-> scheduled[i].delay] = <<5, 15>>

\* the delay is missing, not numeric, or negative
MalformedDelay(delay) ==
    delay.t \in {"missing", "nan"} \/ (delay.t \in {"num", "str"} /\ delay.v < 0)

\* C13: in absolute mode an enabled action whose delay is missing, not
\* numeric or negative is dispatched within the call and gets no timer, and
\* the run goes on: every enabled action of the list is either dispatched
\* within the call or given a timer, and only one of the two.
C13_MalformedDelayImmediate ==
    (lastOp.op = "run" /\ ~lastOp.relative_delay) =>
        LET inline == {dispatched[k].id : k \in {j \in 1..Len(dispatched) :
                           dispatched[j].run = 1 /\ dispatched[j].timer = 0}}
            delayed == {armed[k].id : k \in {j \in 1..Len(armed) : armed[j].run = 1}}
        IN  \A i \in 1..Len(lastOp.actions) :
                LET action == lastOp.actions[i]
                IN  ~action.disabled
                    => /\ (i \in inline) # (i \in delayed)
                       /\ MalformedDelay(action.delay) => i \in inline

C13_Witness ==
    /\ lastOp.op = "run"
    /\ ~lastOp.relative_delay
    /\ [i \in 1..Len(lastOp.actions) |-> lastOp.actions[i].delay]
           = <<NumDelay(0 - 5), NanDelay, NumDelay(5)>>
    /\ \A i \in 1..Len(lastOp.actions) : lastOp.actions[i].instance = "conn1"
    /\ Ids(dispatched) = <<1, 2>>
    /\ Ids(armed) = <<3>>

\* the entries of the event log that are calls of a control's handler
Handlers(log, name) == SelectSeq(log, LAMBDA e : e.kind = "handler" /\ e.name = name)

\* C14: pressControl for an id without a control returns false, leaves the
\* timers and every control's flags as they were, dispatches nothing, and
\* still emits 'control_press' for the id to the trigger system.
C14_UnknownPressStillEmits ==
    [][(lastOp'.op = "press" /\ ControlType(lastOp'.controlId) = "none")
          => /\ ~result'
             /\ timers' = timers
             /\ scheduled' = scheduled
             /\ running' = running
             /\ pushed' = pushed
             /\ dispatched' = <<>>
             /\ \E k \in 1..Len(events') :
                    /\ events'[k].kind = "emit"
                    /\ events'[k].name = "control_press"
                    /\ events'[k].controlId = lastOp'.controlId]_vars

\* C15: every pressControl and every rotateControl call emits an event to
\* the trigger system for its id, before any handler of a control is
\* called, whether or not the id has a control that can take the call.
C15_EmitsFirstAlways ==
    lastOp.op \in {"press", "rotate"}
    => /\ events # <<>>
       /\ events[1].kind = "emit"
       /\ events[1].controlId = lastOp.controlId

\* the registry holds a control for the id that can be pressed / rotated
Pressable(controlId) == ControlType(controlId) \in {"button", "pageup"}
Rotatable(controlId) == ControlType(controlId) = "button"

\* C16: pressControl returns true exactly for an id with a control that can
\* be pressed, rotateControl exactly for one that can be rotated; the
\* control's handler is called once when the call returns true, and no
\* handler of any control is called when it returns false.
C16_TrueIffCapable ==
    /\ lastOp.op = "press"
       => /\ result <=> Pressable(lastOp.controlId)
          /\ result => /\ Len(Handlers(events, "pressControl")) = 1
                        /\ Handlers(events, "pressControl")[1].controlId = lastOp.controlId
                        /\ Handlers(events, "pressControl")[1].arg = lastOp.pressed
          /\ ~result => \A k \in 1..Len(events) : events[k].kind # "handler"
    /\ lastOp.op = "rotate"
       => /\ result <=> Rotatable(lastOp.controlId)
          /\ result => /\ Len(Handlers(events, "rotateControl")) = 1
                        /\ Handlers(events, "rotateControl")[1].controlId = lastOp.controlId
                        /\ Handlers(events, "rotateControl")[1].arg = lastOp.direction
          /\ ~result => \A k \in 1..Len(events) : events[k].kind # "handler"

C16_Witness ==
    /\ lastOp.op = "press"
    /\ lastOp.pressed
    /\ result
    /\ Len(Handlers(events, "pressControl")) = 1
    /\ armed # <<>>
    /\ pushed[lastOp.controlId]

\* the items of a batch addressed to controlId
ItemsFor(batch, controlId) == SelectSeq(batch, LAMBDA item : item.controlId = controlId)

\* the forwarding calls made to controlId
ForwardsTo(calls, controlId) == SelectSeq(calls, LAMBDA call : call.controlId = controlId)

\* the control has a feedback store
FeedbackHost(controlId) == ControlType(controlId) \in {"button", "trigger"}

\* C17: a batch makes one forwarding call to every control with a feedback
\* store that an item of the batch is addressed to, and no other call; the
\* call carries the connector's id, a value for exactly the feedback ids of
\* the items addressed to the control, and each value is one that an item
\* addressed to the control gives that feedback id.
C17_FeedbackPerControl ==
    lastOp.op = "feedback" =>
        \A c \in DispatchIds :
            LET items == ItemsFor(lastOp.batch, c)
                calls == ForwardsTo(forwards, c)
            IN  IF items # <<>> /\ FeedbackHost(c)
                THEN /\ Len(calls) = 1
                     /\ calls[1].instanceId = lastOp.instanceId
                     /\ DOMAIN calls[1].values = {items[k].id : k \in 1..Len(items)}
                     /\ \A id \in DOMAIN calls[1].values :
                            \E k \in 1..Len(items) :
                                items[k].id = id /\ items[k].value = calls[1].values[id]
                ELSE calls = <<>>

C17_Witness ==
    /\ lastOp.op = "feedback"
    /\ lastOp.batch = <<[controlId |-> X, id |-> "f1", value |-> TRUE],
                        [controlId |-> Y, id |-> "f2", value |-> FALSE],
                        [controlId |-> X, id |-> "f3", value |-> FALSE]>>
    /\ Len(forwards) = 2
    /\ forwards[1].controlId = X
    /\ forwards[1].values = [id \in {"f1", "f3"} |-> id = "f1"]
    /\ forwards[2].controlId = Y
    /\ forwards[2].values = [id \in {"f2"} |-> FALSE]

\* C18: the value forwarded to a control for a feedback id is the value of
\* the last item of the batch with that control id and feedback id.
C18_LastValueWins ==
    lastOp.op = "feedback" =>
        \A n \in 1..Len(forwards) :
            \A id \in DOMAIN forwards[n].values :
                LET same == {k \in 1..Len(lastOp.batch) :
                                /\ lastOp.batch[k].controlId = forwards[n].controlId
                                /\ lastOp.batch[k].id = id}
                    last == CHOOSE k \in same : \A j \in same : j <= k
                IN  same # {} /\ forwards[n].values[id] = lastOp.batch[last].value

C18_Witness ==
    /\ lastOp.op = "feedback"
    /\ Len(lastOp.batch) = 3
    /\ lastOp.batch[1] = [controlId |-> X, id |-> "f1", value |-> TRUE]
    /\ lastOp.batch[2] = [controlId |-> Y, id |-> "f1", value |-> TRUE]
    /\ lastOp.batch[3] = [controlId |-> X, id |-> "f1", value |-> FALSE]
    /\ Len(forwards) = 2
    /\ forwards[1].values["f1"] = FALSE

\* the action names a connector that cannot be resolved
Unresolved(action) == action.instance \notin Connectors \cup {"internal"}

\* a list without its unresolved actions
WithoutUnresolved(list) == SelectSeq(list, LAMBDA action : ~Unresolved(action))

\* a list without its unresolved actions, the delay of each of them handed
\* on, in relative mode, to the next enabled action that stays
RECURSIVE CarryUnresolved(_, _, _)
CarryUnresolved(list, relative_delay, carried) ==
    IF list = <<>> THEN <<>>
    ELSE LET action == Head(list)
         IN  IF action.disabled
             THEN <<action>> \o CarryUnresolved(Tail(list), relative_delay, carried)
             ELSE IF Unresolved(action)
             THEN CarryUnresolved(Tail(list), relative_delay,
                                  IF relative_delay THEN carried + ThisDelay(action) ELSE 0)
             ELSE <<[action EXCEPT !.delay = NumDelay(ThisDelay(action) + carried)]>>
                      \o CarryUnresolved(Tail(list), relative_delay, 0)

\* the dispatches of a run other than those of its own unresolved actions
OtherDispatches(log, actions) ==
    LET others == SelectSeq(log, LAMBDA d : ~(d.run = 1 /\ Unresolved(actions[d.id])))
    IN  [k \in 1..Len(others) |->
            [id |-> others[k].id, controlId |-> others[k].controlId, run |-> others[k].run,
             timer |-> others[k].timer, outcome |-> others[k].outcome]]

\* the timeouts a run leaves armed other than those of its own unresolved
\* actions, each with its owner, its action and its delay
OtherTimeouts(entries, log, actions) ==
    LET own == {log[k].timer : k \in {j \in 1..Len(log) :
                    log[j].run = 1 /\ Unresolved(actions[log[j].id])}}
        others == SelectSeq(entries, LAMBDA t : t.id \notin own)
    IN  [k \in 1..Len(others) |->
            [id |-> others[k].action.id, controlId |-> others[k].controlId,
             delay |-> others[k].delay]]

\* the other actions of a run are dispatched and scheduled as ref does
SameForOthers(ref, actions) ==
    /\ OtherDispatches(dispatched', actions) = OtherDispatches(ref.dispatched, actions)
    /\ OtherTimeouts(scheduled', armed', actions)
           = OtherTimeouts(ref.scheduled, ref.armed, actions)

\* no connector is called for an unresolved action, and nothing is raised
NoCallForUnresolved(log) ==
    \A k \in 1..Len(log) :
        log[k].instance \notin Connectors \cup {"internal"}
        => log[k].outcome = "missing" /\ log[k].failure = "none"

\* a timer whose action is unresolved leaves #timers_running when it fires
UnresolvedFireRemoved ==
    (lastOp'.op = "fire" /\ dispatched'[1].outcome = "missing")
    => timers' = SelectSeq(timers, LAMBDA t : t.id # lastOp'.timer)

\* C19 as stated: no connector is called for an unresolved action; the
\* other actions of a run are dispatched and scheduled as in the run of the
\* list without the unresolved actions; the timer of an unresolved action
\* is removed when it fires.
C19_UnresolvedAsAbsent ==
    [][/\ NoCallForUnresolved(dispatched')
       /\ lastOp'.op = "run"
          => SameForOthers(RunMultipleActions(Start, WithoutUnresolved(lastOp'.actions),
                                              lastOp'.controlId, lastOp'.relative_delay),
                           lastOp'.actions)
       /\ UnresolvedFireRemoved]_vars

\* C19 amended: as stated, except that in relative mode the delay of an
\* unresolved action still counts towards the effective delays of the
\* actions after it.
C19_UnresolvedDropped ==
    [][/\ NoCallForUnresolved(dispatched')
       /\ lastOp'.op = "run"
          => SameForOthers(RunMultipleActions(Start,
                               CarryUnresolved(lastOp'.actions, lastOp'.relative_delay, 0),
                               lastOp'.controlId, lastOp'.relative_delay),
                           lastOp'.actions)
       /\ UnresolvedFireRemoved]_vars

C19_Witness ==
    /\ lastOp.op = "fire"
    /\ dispatched[1].outcome = "missing"
    /\ dispatched[1].timer = lastOp.timer
    /\ timers # <<>>
    /\ lastOp.timer \notin TimerIds(timers)

\* the list with the actions of failing connectors handed to one that runs them
Succeeding(list) ==
    [i \in 1..Len(list) |->
        IF list[i].instance \in Rejecting THEN [list[i] EXCEPT !.instance = "conn1"]
        ELSE list[i]]

\* a log of #runAction calls without the connectors' names and what became
\* of their promises
Calls(log) ==
    [k \in 1..Len(log) |->
        [id |-> log[k].id, controlId |-> log[k].controlId, run |-> log[k].run,
         timer |-> log[k].timer, outcome |-> log[k].outcome]]

\* the armed timeouts without their actions' connectors
Timeouts(entries) ==
    [k \in 1..Len(entries) |->
        [timer |-> entries[k].id, id |-> entries[k].action.id,
         controlId |-> entries[k].controlId, delay |-> entries[k].delay,
         remaining |-> entries[k].remaining]]

\* C20: the rejection of a connector's actionRun is caught: it reaches no
\* caller, and a run or a fire with failing actions dispatches, schedules,
\* removes timers and signals the control exactly as it does when the same
\* actions succeed.
C20_FailureIsolated ==
    [][/\ \A k \in 1..Len(dispatched') : dispatched'[k].failure # "unhandled"
       /\ lastOp'.op = "run"
          => LET ref == RunMultipleActions(Start, Succeeding(lastOp'.actions),
                                           lastOp'.controlId, lastOp'.relative_delay)
             IN  /\ Calls(dispatched') = Calls(ref.dispatched)
                 /\ Timeouts(scheduled') = Timeouts(ref.scheduled)
                 /\ timers' = ref.timers
                 /\ armed' = ref.armed
                 /\ signals' = ref.signals
       /\ (lastOp'.op = "fire" /\ dispatched'[1].failure = "caught")
          => /\ timers' = SelectSeq(timers, LAMBDA t : t.id # lastOp'.timer)
             /\ Len(FalseSignals(signals', lastOp'.controlId))
                    = IF TimersOf(timers', lastOp'.controlId) = <<>> THEN 1 ELSE 0]_vars

C20_Witness ==
    /\ lastOp.op = "run"
    /\ Len(lastOp.actions) = 3
    /\ lastOp.actions[1].instance = "conn2" /\ lastOp.actions[1].delay = NoDelay
    /\ lastOp.actions[2].instance = "conn2" /\ lastOp.actions[2].delay = NumDelay(5)
    /\ lastOp.actions[3].instance = "conn1" /\ lastOp.actions[3].delay = NoDelay
    /\ Len(dispatched) = 2
    /\ dispatched[1].failure = "caught"
    /\ dispatched[2].outcome = "actionRun" /\ dispatched[2].id = 3
    /\ Ids(armed) = <<2>>

\* the bank control ids of a page that abortPageDelayed does not skip
AbortedOfPage(page, exclude) ==
    {CreateBankControlId(page, bank) : bank \in 1..MAX_BUTTONS} \ exclude

\* C21: abortPageDelayed(page, exclude) removes the timers owned by the bank
\* controls of the page that are not in exclude, and leaves every other
\* timer (of an excluded control, of another page, of a trigger) pending
\* and armed.
C21_AbortPageFrame ==
    [][lastOp'.op = "abortPage" =>
          LET aborted == AbortedOfPage(lastOp'.page, lastOp'.skipControlIds)
          IN  /\ timers' = SelectSeq(timers, LAMBDA t : t.controlId \notin aborted)
              /\ scheduled' = SelectSeq(scheduled, LAMBDA t : t.controlId \notin aborted)
              /\ cleared' = {timers[i].id : i \in {j \in 1..Len(timers) :
                                 timers[j].controlId \in aborted}}]_vars

C21_Witness ==
    /\ lastOp.op = "abortPage"
    /\ lastOp.page = 1
    /\ lastOp.skipControlIds = {X}
    /\ Cardinality(cleared) = 1
    /\ Len(TimersOf(timers, X)) = 1
    /\ Len(TimersOf(scheduled, X)) = 1

C23_AbortNothingIsNoOp ==
    [][(lastOp'.op = "abortControl" /\ TimersOf(timers, lastOp'.controlId) = <<>>)
          => /\ timers' = timers
             /\ scheduled' = scheduled
             /\ signals' = <<>>
             /\ running' = running
             /\ pushed' = pushed]_vars

\* C24: a run whose actions abort nothing removes no timer: the timers
\* pending before it are still pending after it, in front of those it
\* added, and their timeouts are still armed with the time they had left.
C24_RunKeepsTimers ==
    [][(lastOp'.op = "run" /\ ~AbortInStep')
          => /\ Len(timers') >= Len(timers)
             /\ SubSeq(timers', 1, Len(timers)) = timers
             /\ Len(scheduled') >= Len(scheduled)
             /\ SubSeq(scheduled', 1, Len(scheduled)) = scheduled
             /\ cleared' = {}]_vars

C24_Witness ==
    /\ lastOp.op = "run"
    /\ lastOp.controlId = X
    /\ ~AbortInStep
    /\ Len(armed) = 1
    /\ Len(TimersOf(timers, X)) = 2
    /\ Len(TimersOf(scheduled, X)) = 2
    /\ scheduled[1].remaining = 0

\* C28: when an action dispatched within a run is an abort ('panic',
\* 'panic_bank', 'panic_page'), the control's running flag on return is
\* false if no timer of the control is pending.
C28_RunWithAbortAgrees ==
    [][(/\ lastOp'.op = "run"
        /\ lastOp'.controlId \in RunningControls
        /\ \E k \in 1..Len(dispatched') :
               /\ dispatched'[k].run = 1 /\ dispatched'[k].timer = 0
               /\ dispatched'[k].action \in {"panic", "panic_bank", "panic_page"})
          => (TimersOf(timers', lastOp'.controlId) = <<>> => ~running'[lastOp'.controlId])]_vars

\* C29: a fire whose action is 'panic', or 'panic_bank' on the control
\* that owns the timer, makes exactly one running=false call to that
\* control.
C29_AbortingFireSignalsOnce ==
    [][(/\ lastOp'.op = "fire"
        /\ \/ dispatched'[1].action = "panic"
           \/ /\ dispatched'[1].action = "panic_bank"
              /\ \E n \in 1..Len(signals') : signals'[n].controlId = lastOp'.controlId)
          => Len(FalseSignals(signals', lastOp'.controlId)) = 1]_vars

\* the list with the actions of connectors that never complete handed to
\* one that completes them
Completing(list) ==
    [i \in 1..Len(list) |->
        IF list[i].instance \in Hanging THEN [list[i] EXCEPT !.instance = "conn1"]
        ELSE list[i]]

\* C25: an action whose execution never completes blocks nothing: a run
\* with such actions returns having dispatched and scheduled every action as
\* it does when all of them complete, and while executions are outstanding
\* every timer that fires dispatches its action and leaves #timers_running,
\* the timers it does not abort staying pending.
C25_NeverCompletingBlocksNothing ==
    [][/\ lastOp'.op = "run"
          => LET ref == RunMultipleActions(Start, Completing(lastOp'.actions),
                                           lastOp'.controlId, lastOp'.relative_delay)
             IN  /\ Calls(dispatched') = Calls(ref.dispatched)
                 /\ Timeouts(scheduled') = Timeouts(ref.scheduled)
                 /\ timers' = ref.timers
                 /\ armed' = ref.armed
                 /\ signals' = ref.signals
       /\ (lastOp'.op = "fire" /\ unsettled' # <<>> /\ ~AbortInStep')
          => /\ Len(dispatched') = 1
             /\ dispatched'[1].timer = lastOp'.timer
             /\ lastOp'.timer \notin TimerIds(timers')
             /\ Len(timers') >= Len(timers) - 1
             /\ [k \in 1..(Len(timers) - 1) |-> timers'[k]]
                    = SelectSeq(timers, LAMBDA t : t.id # lastOp'.timer)
             /\ Len(scheduled') >= Len(scheduled) - 1
             /\ [k \in 1..(Len(scheduled) - 1) |-> scheduled'[k]]
                    = SelectSeq(scheduled, LAMBDA t : t.id # lastOp'.timer)
             /\ (TimersOf(timers', lastOp'.controlId) = <<>>)
                    => ~running'[lastOp'.controlId]]_vars

C25_Witness ==
    /\ lastOp.op = "fire"
    /\ dispatched[1].instance = "conn1"
    /\ Len(unsettled) = 2
    /\ unsettled[1].timer = 0
    /\ unsettled[2].timer # 0
    /\ timers = <<>>
    /\ ~running[lastOp.controlId]

\* the action sets or advances a step
StepAction(action) ==
    action.instance = "internal"
    /\ action.action \in {"bank_current_step", "bank_current_step_delta"}

\* C26: the active step index of every button is within [0, StepCount), and
\* an immediate 'bank_current_step_delta' action run on its own moves the
\* index of its button from i to (i + d) mod StepCount.
C26_StepIndexInRange ==
    [][/\ \A c \in DOMAIN step' : step'[c] \in 0..(StepCount - 1)
       /\ (/\ lastOp'.op = "run"
           /\ Len(lastOp'.actions) = 1
           /\ lastOp'.actions[1].action = "bank_current_step_delta"
           /\ lastOp'.actions[1].delay = NoDelay
           /\ lastOp'.actions[1].page = 0)
          => step'[lastOp'.controlId]
                 = (step[lastOp'.controlId] + lastOp'.actions[1].amount) % StepCount]_vars

\* a list with its step actions replaced by connector actions of the same delay
WithoutStepActions(list) ==
    [i \in 1..Len(list) |->
        IF StepAction(list[i]) THEN [ConnectorAction(list[i].delay) EXCEPT !.id = list[i].id]
        ELSE list[i]]

\* C27: the step actions run and cancel nothing: a run leaves the timers,
\* the timeouts, the running flags, the pushed flags and the calls to the
\* controls as the same run does with a connector action in the place of each
\* step action, invokes no press or rotate handler, and the fire of a
\* delayed step action removes its own timer only.
C27_StepChangeRunsNothing ==
    [][/\ lastOp'.op = "run"
          => LET ref == RunMultipleActions(Start, WithoutStepActions(lastOp'.actions),
                                           lastOp'.controlId, lastOp'.relative_delay)
             IN  /\ Len(dispatched') = Len(ref.dispatched)
                 /\ Timeouts(scheduled') = Timeouts(ref.scheduled)
                 /\ timers' = ref.timers
                 /\ running' = ref.running
                 /\ pushed' = ref.pushed
                 /\ signals' = ref.signals
                 /\ cleared' = {}
                 /\ events' = <<>>
       /\ (lastOp'.op = "fire" /\ StepAction(ScheduledEntry(lastOp'.timer).action))
          => /\ Len(dispatched') = 1
             /\ timers' = SelectSeq(timers, LAMBDA t : t.id # lastOp'.timer)
             /\ scheduled' = SelectSeq(scheduled, LAMBDA t : t.id # lastOp'.timer)
             /\ \A c \in DOMAIN running :
                    running'[c] = (running[c] /\ TimersOf(timers', c) # <<>>)
             /\ pushed' = pushed
             /\ cleared' = {}
             /\ events' = <<>>]_vars

C27_Witness ==
    /\ lastOp.op = "run"
    /\ Len(lastOp.actions) = 2
    /\ lastOp.actions[1] = [Delayed EXCEPT !.id = 1]
    /\ lastOp.actions[2].action = "bank_current_step"
    /\ lastOp.actions[2].page = 0
    /\ step[lastOp.controlId] = 1
    /\ Len(timers) = 2
    /\ scheduled[1].remaining = 0
    /\ running[lastOp.controlId]
    /\ Len(dispatched) = 1

\* C30: a timer that fires leaves #timers_running by its own fire, whatever
\* becomes of the dispatch of its action; when no timeout is armed any
\* more, #timers_running is empty and no control shows running actions.
C30_FiredTimerRemoved ==
    [][/\ lastOp'.op = "fire" => lastOp'.timer \notin TimerIds(timers')
       /\ scheduled' = <<>>
          => /\ timers' = <<>>
             /\ \A c \in DOMAIN running' : ~running'[c]]_vars

\* the #runAction calls of a log made by the callback of the timer
DispatchesOf(log, timer) == SelectSeq(log, LAMBDA d : d.timer = timer)

\* C31: an armed timeout is dispatched only by its own fire, once, and the
\* fire takes it off the queue; a timeout an abort cancels is taken off the
\* queue without a dispatch, unless the abort is made by its own callback;
\* no callback runs for a timeout that is not armed.
C31_DispatchedAtMostOnce ==
    [][/\ \A i \in 1..Len(scheduled) :
              LET t == scheduled[i]
                  fired == lastOp'.op = "fire" /\ lastOp'.timer = t.id
              IN  /\ Len(DispatchesOf(dispatched', t.id)) = IF fired THEN 1 ELSE 0
                  /\ fired => t.id \notin TimerIds(scheduled')
                  /\ (t.id \in cleared' /\ ~fired) => t.id \notin TimerIds(scheduled')
                  /\ (t.id \notin cleared' /\ ~fired) => t \in {scheduled'[j] : j \in 1..Len(scheduled')}
                                                          \/ lastOp'.op = "tick"
       /\ \A k \in 1..Len(dispatched') :
              dispatched'[k].timer # 0 => dispatched'[k].timer \in TimerIds(scheduled)]_vars

C31_Witness ==
    /\ lastOp.op = "fire"
    /\ Len(DispatchesOf(dispatched, lastOp.timer)) = 1
    /\ Cardinality(cleared) = 2
    /\ lastOp.timer \in cleared
    /\ scheduled = <<>>

\* C32: in relative mode the effective delays of the enabled actions of a
\* run do not decrease in input order, and no action of the run is dispatched
\* within the call after one of its actions was handed to a timer.
C32_RelativeDelaysMonotone ==
    [][(lastOp'.op = "run" /\ lastOp'.relative_delay)
       => LET actions == EnabledActions(lastOp'.actions)
              effective_delays == EffectiveDelays(actions, TRUE)
          IN  /\ \A i, j \in 1..Len(actions) :
                     i < j => DelayTime(effective_delays, actions[i])
                                  <= DelayTime(effective_delays, actions[j])
              /\ \A a \in 1..Len(armed'), d \in 1..Len(dispatched') :
                     (armed'[a].run = 1 /\ dispatched'[d].run = 1 /\ dispatched'[d].timer = 0)
                     => dispatched'[d].id < armed'[a].id]_vars

\* C33: when a timer of the run's control fires, no timer of an earlier
\* action of the run is still waiting: the delayed actions of a run in
\* relative mode are dispatched in input order.
C33_FiresInInputOrder ==
    [][(/\ lastOp'.op = "fire"
        /\ lastOp'.controlId \in {CreateBankControlId(1, 1), CreateTriggerControlId(1)})
       => \A i \in 1..Len(scheduled') :
              scheduled'[i].controlId = lastOp'.controlId
              => scheduled'[i].action.id > ScheduledEntry(lastOp'.timer).action.id]_vars

\* the action of a #runAction call: of the list run, or of the timer fired
ActionOf(d) ==
    IF d.timer = 0 THEN lastOp'.actions[d.id] ELSE ScheduledEntry(d.timer).action

\* C34: a 'panic_page' action with ignoreSelf set, dispatched for a button
\* of the page it names, cancels no timer of that button and does not
\* signal it, and leaves no timer to the other buttons of the page.
C34_PanicPageSkipsSelf ==
    [][\A k \in 1..Len(dispatched') :
           LET d == dispatched'[k]
           IN  (/\ d.action = "panic_page"
                /\ d.run <= 1
                /\ ActionOf(d).ignoreSelf
                /\ ActionOf(d).page = 0
                /\ d.controlId \in BankControlIds)
               => /\ \A i \in 1..Len(timers) :
                         (timers[i].controlId = d.controlId /\ timers[i].id # d.timer)
                         => timers[i].id \notin cleared'
                  /\ d.timer = 0 => FalseSignals(signals', d.controlId) = <<>>
                  /\ \A c \in BankControlIds :
                         (c.page = d.controlId.page /\ c # d.controlId)
                         => TimersOf(timers', c) = <<>>]_vars

\* the items of a batch addressed to controls with a feedback store
ItemsForHosts(batch) ==
    SelectSeq(batch, LAMBDA item : getControl(item.controlId) /\ FeedbackHost(item.controlId))

\* C35: the items of a batch addressed to an id without a control, or to a
\* control without a feedback store, are dropped: no call is made for them,
\* nothing is raised, and the calls made are those, in order and content, of
\* the batch without these items.
C35_DroppedItemsAlterNothing ==
    lastOp.op = "feedback" =>
        /\ ~thrown
        /\ \A n \in 1..Len(forwards) :
               getControl(forwards[n].controlId) /\ FeedbackHost(forwards[n].controlId)
        /\ forwards = UpdateFeedbackValues(Start, lastOp.instanceId,
                                           ItemsForHosts(lastOp.batch)).forwards

C35_Witness ==
    /\ lastOp.op = "feedback"
    /\ lastOp.batch = <<[controlId |-> UnknownControlId, id |-> "f1", value |-> TRUE],
                        [controlId |-> X, id |-> "f1", value |-> FALSE],
                        [controlId |-> CreateBankControlId(2, 2), id |-> "f2", value |-> TRUE]>>
    /\ Len(forwards) = 1
    /\ forwards[1].controlId = X
    /\ forwards[1].values = [id \in {"f1"} |-> FALSE]

\* C36: whenever resetControl returns false the registry is as it was
\* before the call; a call with a trigger id or with a bank id outside the
\* grid removes no control
C36_FailedResetKeepsRegistry ==
    [][(lastOp'.op = "reset" /\ ~result') => controls' = controls]_vars

\* C37: 'controls:swap' with two valid bank ids succeeds and exchanges the
\* configurations of the two slots (an empty slot stays an empty slot on the
\* other side), every other entry of the registry is as before, and the
\* same swap made once more gives the registry before the first
C37_SwapExchanges ==
    [][(/\ lastOp'.op = "swap"
        /\ validateBankControlId(lastOp'.controlId)
        /\ validateBankControlId(lastOp'.controlIdB))
       => LET controlIdA == lastOp'.controlId
              controlIdB == lastOp'.controlIdB
          IN  /\ result'
              /\ toJSON(controls'[controlIdB]) = toJSON(controls[controlIdA])
              /\ toJSON(controls'[controlIdA]) = toJSON(controls[controlIdB])
              /\ \A c \in {controlIdA, controlIdB} :
                     controls'[c] # NoEntry => controls'[c].controlId = c
              /\ \A c \in RegistryIds \ {controlIdA, controlIdB} : controls'[c] = controls[c]
              /\ ControlsSwap([Start EXCEPT !.controls = controls'],
                              controlIdA, controlIdB).controls = controls]_vars

\* the first button and the page-up button, which an earlier swap had moved
\* from 2-2 to 1-2, were exchanged
C37_Witness ==
    /\ lastOp.op = "swap"
    /\ lastOp.controlId = CreateBankControlId(1, 1)
    /\ lastOp.controlIdB = CreateBankControlId(1, 2)
    /\ controls[CreateBankControlId(1, 1)] =
           [controlId |-> CreateBankControlId(1, 1), type |-> "pageup",
            text |-> StoredText(CreateBankControlId(2, 2))]
    /\ controls[CreateBankControlId(1, 2)] =
           [controlId |-> CreateBankControlId(1, 2), type |-> "button",
            text |-> StoredText(CreateBankControlId(1, 1))]
    /\ controls[CreateBankControlId(2, 2)] = NoEntry
    /\ result

\* C38: no two stored connections have the same label, whatever calls of
\* addInstance, 'instances:set-config', activate_module and deleteInstance
\* were made
C38_LabelsUnique ==
    \A id \in DOMAIN store, other \in DOMAIN store :
        id # other => store[id].label # store[other].label

\* C39: once initInstances has run, every legacy id in the manifest of a
\* known module that is not a legacy module is renamed to that module, is
\* not a known module itself, and verifyInstanceTypeIsCurrent gives the
\* module for it
C39_LegacyIdsRenamed ==
    \A id \in DOMAIN known_modules :
        ~known_modules[id].isLegacy =>
            \A k \in 1..Len(known_modules[id].legacyIds) :
                LET legacyId == known_modules[id].legacyIds[k]
                IN  /\ legacyId \in DOMAIN module_renames
                    /\ module_renames[legacyId] = id
                    /\ legacyId \notin DOMAIN known_modules
                    /\ verifyInstanceTypeIsCurrent([module_renames |-> module_renames],
                                                   legacyId) = id

=============================================================================
